---- MODULE Spec2Model ----
(***************************************************************************)
(* A state-machine model of the combat core of the 2D shooter:             *)
(* ship_base.py / breacher_ship.py (hull, shield, dodge, cooldowns),       *)
(* enemy_manager.py (BasicEnemy), universal_cannon.py, enemy_weapons.py,   *)
(* projectile_manager.py and damage_calculator.py.                         *)
(*                                                                         *)
(* Units.  Time is counted in ticks of 25 ms (TicksPerSecond ticks make a  *)
(* second), so that 0.05 s, 0.1 s, 0.125 s and 0.2 s are whole numbers.    *)
(* Energies are whole joules, positions whole pixels, velocities whole     *)
(* pixels per second.  Fractions (dodge_chance, damage_resistance, the     *)
(* multipliers) are kept in percent.                                       *)
(***************************************************************************)
EXTENDS Integers, Sequences, FiniteSets, TLC

VARIABLES
    ship,       \* the BreacherShip object (player_ship)
    enemies,    \* the list of BasicEnemy objects handed to the managers
    bombs,      \* ProjectileManager.bombs
    shots,      \* ProjectileManager.kinetic_shots
    beams,      \* ProjectileManager.energy_beams
    cannon,     \* the ship's UniversalCannon
    missile,    \* an EnemyMissileLauncher
    now,        \* the clock read by the callers of fire() (pygame ticks)
    frame,      \* number of update calls made so far (bounds the runs)
    nextId,     \* identity of the next projectile object created
    call,       \* observer: the last operation, its arguments and result
    hist,       \* observer: what each projectile has done so far
    game        \* GameDirector, EnemyManager and progression state

vars == <<ship, enemies, bombs, shots, beams, cannon, missile, now, frame,
          nextId, call, hist, game>>

---------------------------------------------------------------------------
(* Arithmetic helpers *)

TicksPerSecond == 8 * 5

Min(a, b) == IF a <= b THEN a ELSE b
Max(a, b) == IF a >= b THEN a ELSE b
Abs(a) == IF a >= 0 THEN a ELSE -a

\* Python's int(): truncation toward zero of the quotient a / b (b > 0).
IntDiv(a, b) == IF a >= 0 THEN a \div b ELSE -((-a) \div b)

\* floor(sqrt(n)) for n >= 0, by bisection.
RECURSIVE SqrtSearch(_, _, _)
SqrtSearch(n, lo, hi) ==
    IF lo >= hi THEN lo
    ELSE LET mid == (lo + hi + 1) \div 2
         IN IF mid * mid <= n THEN SqrtSearch(n, mid, hi)
            ELSE SqrtSearch(n, lo, mid - 1)

ISqrt(n) == SqrtSearch(n, 0, Min(n, 46340))

\* The unit vector (cos a, sin a) of the four axis directions that stand for
\* random.uniform(0, 2*pi).
Angles == {"E", "S", "W", "N"}
Cos(a) == CASE a = "E" -> 1 [] a = "W" -> -1 [] OTHER -> 0
Sin(a) == CASE a = "S" -> 1 [] a = "N" -> -1 [] OTHER -> 0

---------------------------------------------------------------------------
(* ShipBase and BreacherShip *)

ScreenWidth == 3840
ScreenHeight == 2160

\* ShipBase.__init__ on the 3840 x 2160 screen: base_size = 12.96.
ShipMaxHp == 24884
ShipBaseMaxShield == 14930
ShipRadius == 12
ShipMaxVelocity == 398
ShipThrustAccel == 187
BreacherBaseShield == 120
ShieldRegenDelay == 3 * TicksPerSecond
BaseRegen == 5

Abilities == {"breach_bomb", "cluster_strike", "overcharge_warheads"}

\* The cooldowns dict: an ability is a key of the dict iff present, and t is
\* the time left in ticks.
NoCooldown == [present |-> FALSE, t |-> 0]
OnCooldown(s, a) == s.cooldowns[a].present

DefaultModifiers ==
    [explosive_bonus_kg |-> 0, damage_resistance |-> 0, dodge_chance |-> 0,
     shield_capacity_bonus |-> 0, shield_regen_bonus |-> 0,
     explosive_damage_mult |-> 100, cooldown_mult |-> 100,
     shield_capacity_mult |-> 100]

\* BreacherShip._recalculate_stats
RecalculateStats(s) ==
    LET m == s.stat_modifiers
        max_shield == IntDiv((BreacherBaseShield + m.shield_capacity_bonus)
                                 * m.shield_capacity_mult, 100)
    IN [s EXCEPT !.max_shield = max_shield,
                 !.current_shield = Min(s.current_shield, max_shield),
                 !.current_hp = Min(s.current_hp, s.max_hp)]

\* BreacherShip.__init__ (with ShipBase.__init__)
NewShip ==
    RecalculateStats(
        [x |-> ScreenWidth \div 2, y |-> ScreenHeight - 150, vx |-> 0, vy |-> 0,
         max_hp |-> ShipMaxHp, current_hp |-> ShipMaxHp,
         max_shield |-> ShipBaseMaxShield, current_shield |-> ShipBaseMaxShield,
         stat_modifiers |-> DefaultModifiers,
         cooldowns |-> [a \in Abilities |-> NoCooldown],
         breach_bomb_uses |-> 0,
         overcharge_active |-> FALSE, overcharge_timer |-> 0,
         shield_regen_timer |-> 0])

\* BreacherShip.apply_stat_modifiers: dict.update with the given keys, then
\* _recalculate_stats.
ApplyStatModifiersTo(s, modifiers) ==
    LET merged == [k \in DOMAIN s.stat_modifiers |->
                      IF k \in DOMAIN modifiers THEN modifiers[k]
                      ELSE s.stat_modifiers[k]]
    IN RecalculateStats([s EXCEPT !.stat_modifiers = merged])

\* ShipBase.take_damage: the ship after the call, and the value returned.
ShipBaseTakeDamageUnclamped(s, damage_joules, angle) ==
    LET shield_damage == IF s.current_shield > 0
                         THEN Min(damage_joules, s.current_shield) ELSE 0
        shield == s.current_shield - shield_damage
        rest == damage_joules - shield_damage
        hull_damage == IF rest > 0 THEN rest ELSE 0
        hp == s.current_hp - hull_damage
        impulse == IntDiv(ISqrt(Abs(hull_damage)), 100)
    IN [ship |-> [s EXCEPT !.current_shield = shield, !.current_hp = hp,
                           !.vx = IF rest > 0 THEN @ + Cos(angle) * impulse ELSE @,
                           !.vy = IF rest > 0 THEN @ + Sin(angle) * impulse ELSE @],
        killed |-> hp <= 0]

ShipBaseTakeDamage(s, damage_joules, angle) ==
    LET shield_damage == IF s.current_shield > 0
                         THEN Min(damage_joules, s.current_shield) ELSE 0
        shield == s.current_shield - shield_damage
        rest == damage_joules - shield_damage
        hull_damage == IF rest > 0 THEN Min(rest, s.current_hp) ELSE 0
        hp == s.current_hp - hull_damage
        impulse == IntDiv(ISqrt(hull_damage), 100)
    IN [ship |-> [s EXCEPT !.current_shield = shield, !.current_hp = hp,
                           !.vx = IF rest > 0 THEN @ + Cos(angle) * impulse ELSE @,
                           !.vy = IF rest > 0 THEN @ + Sin(angle) * impulse ELSE @],
        killed |-> hp <= 0]

\* BreacherShip.take_damage.  roll is random.random() in percent (0..99).
BreacherTakeDamageTimerFirst(s, damage_joules, roll, angle) ==
    LET t == [s EXCEPT !.shield_regen_timer = 0]
    IN IF roll < s.stat_modifiers.dodge_chance
       THEN [ship |-> t, killed |-> FALSE, evaded |-> TRUE]
       ELSE LET actual == IntDiv(damage_joules
                                   * (100 - s.stat_modifiers.damage_resistance), 100)
                r == ShipBaseTakeDamage(t, actual, angle)
            IN [ship |-> r.ship, killed |-> r.killed, evaded |-> FALSE]

BreacherTakeDamage(s, damage_joules, roll, angle) ==
    IF roll < s.stat_modifiers.dodge_chance
    THEN [ship |-> s, killed |-> FALSE, evaded |-> TRUE]
    ELSE LET actual == IntDiv(damage_joules
                                * (100 - s.stat_modifiers.damage_resistance), 100)
             t == [s EXCEPT !.shield_regen_timer = 0]
             r == ShipBaseTakeDamage(t, actual, angle)
         IN [ship |-> r.ship, killed |-> r.killed, evaded |-> FALSE]

\* ShipBase.is_dead
ShipIsDead(s) == s.current_hp <= 0

\* The keys_pressed maps the callers pass to update.
KeySets == {{}, {"RIGHT", "UP"}}

\* ShipBase.update: thrust, drag, Euler step, velocity limit, bounce, cooldowns.
ShipBaseUpdate(s, delta_time, keys) ==
    LET thrust_x == (IF "RIGHT" \in keys THEN ShipThrustAccel ELSE 0)
                    - (IF "LEFT" \in keys THEN ShipThrustAccel ELSE 0)
        thrust_y == (IF "DOWN" \in keys THEN ShipThrustAccel ELSE 0)
                    - (IF "UP" \in keys THEN ShipThrustAccel ELSE 0)
        moving == s.vx # 0 \/ s.vy # 0
        ax == thrust_x + (IF moving THEN IntDiv(-3 * s.vx, 10) ELSE 0)
        ay == thrust_y + (IF moving THEN IntDiv(-3 * s.vy, 10) ELSE 0)
        vx1 == s.vx + IntDiv(ax * delta_time, TicksPerSecond)
        vy1 == s.vy + IntDiv(ay * delta_time, TicksPerSecond)
        mag == ISqrt(vx1 * vx1 + vy1 * vy1)
        fast == vx1 * vx1 + vy1 * vy1 > ShipMaxVelocity * ShipMaxVelocity
        vx2 == IF fast THEN IntDiv(vx1 * ShipMaxVelocity, mag) ELSE vx1
        vy2 == IF fast THEN IntDiv(vy1 * ShipMaxVelocity, mag) ELSE vy1
        x1 == s.x + IntDiv(vx2 * delta_time, TicksPerSecond)
        y1 == s.y + IntDiv(vy2 * delta_time, TicksPerSecond)
        lowx == x1 <= ShipRadius
        highx == ~lowx /\ x1 >= ScreenWidth - ShipRadius
        lowy == y1 <= ShipRadius
        highy == ~lowy /\ y1 >= ScreenHeight - ShipRadius
        cd == [a \in Abilities |->
                 IF s.cooldowns[a].present /\ s.cooldowns[a].t - delta_time > 0
                 THEN [present |-> TRUE, t |-> s.cooldowns[a].t - delta_time]
                 ELSE NoCooldown]
    IN [s EXCEPT
          !.x = IF lowx THEN ShipRadius
                ELSE IF highx THEN ScreenWidth - ShipRadius ELSE x1,
          !.y = IF lowy THEN ShipRadius
                ELSE IF highy THEN ScreenHeight - ShipRadius ELSE y1,
          !.vx = IF lowx THEN IntDiv(Abs(vx2) * 3, 10)
                 ELSE IF highx THEN -IntDiv(Abs(vx2) * 3, 10) ELSE vx2,
          !.vy = IF lowy THEN IntDiv(Abs(vy2) * 3, 10)
                 ELSE IF highy THEN -IntDiv(Abs(vy2) * 3, 10) ELSE vy2,
          !.cooldowns = cd]

\* BreacherShip._update_shield_regen that regenerates without waiting for the
\* delay.
UpdateShieldRegenNoDelay(s, delta_time) ==
    IF s.current_shield < s.max_shield
    THEN LET timer == s.shield_regen_timer + delta_time
             regen_rate == BaseRegen + s.stat_modifiers.shield_regen_bonus
         IN [s EXCEPT !.shield_regen_timer = timer,
                      !.current_shield =
                          Min(s.max_shield,
                              @ + IntDiv(regen_rate * delta_time, TicksPerSecond))]
    ELSE s

\* BreacherShip._update_shield_regen
UpdateShieldRegen(s, delta_time) ==
    IF s.current_shield < s.max_shield
    THEN LET timer == s.shield_regen_timer + delta_time
             regen_rate == BaseRegen + s.stat_modifiers.shield_regen_bonus
         IN [s EXCEPT !.shield_regen_timer = timer,
                      !.current_shield =
                          IF timer >= ShieldRegenDelay
                          THEN Min(s.max_shield,
                                   @ + IntDiv(regen_rate * delta_time, TicksPerSecond))
                          ELSE @]
    ELSE s

\* BreacherShip.update
BreacherUpdate(s, delta_time, keys) ==
    LET b == ShipBaseUpdate(s, delta_time, keys)
        timer == b.overcharge_timer - delta_time
        o == IF b.overcharge_active
             THEN [b EXCEPT !.overcharge_timer = timer,
                            !.overcharge_active = ~(timer <= 0)]
             ELSE b
    IN UpdateShieldRegen(o, delta_time)

---------------------------------------------------------------------------
(* BasicEnemy *)

\* speed * (base_size / 13) with base_size = 12.96
SpeedScale(v) == IntDiv(v * 1296, 1300)

EnemyTypes == {"fighter", "bomber", "scout"}

\* int(_calculate_realistic_hp(type, level) * hp_scale), hp_scale = (12.96/13)^1.5
EnemyMaxHp(type, level) ==
    LET base == CASE type = "bomber" -> 4000 [] type = "scout" -> 800 [] OTHER -> 1500
    IN IntDiv(((base * (10 + (level - 1) * 8)) \div 10) * 99539, 100000)

\* max(4, int((base_radius + level * 2) * (base_size / 13)))
EnemyRadius(type, level) ==
    LET base == CASE type = "bomber" -> 16 [] type = "scout" -> 8 [] OTHER -> 12
    IN Max(4, SpeedScale(base + level * 2))

\* BasicEnemy.__init__; vx0, vy0 and the two intervals are the random draws.
NewEnemy(type, level, x, y, vx0, vy0, bci, si) ==
    [enemy_type |-> type, level |-> level, x |-> x, y |-> y,
     vx |-> SpeedScale(vx0), vy |-> SpeedScale(vy0), target_vx |-> SpeedScale(vx0),
     max_hp |-> EnemyMaxHp(type, level), current_hp |-> EnemyMaxHp(type, level),
     radius |-> EnemyRadius(type, level),
     behavior_timer |-> 0, behavior_change_interval |-> bci,
     shoot_timer |-> 0, shoot_interval |-> si,
     active |-> TRUE, alive |-> TRUE]

\* BasicEnemy.take_damage without the clamp of the hull at zero.
EnemyTakeDamageUnclamped(e, damage_joules, angle) ==
    IF ~e.alive THEN [enemy |-> e, killed |-> FALSE]
    ELSE LET hp == e.current_hp - damage_joules
             force == IF damage_joules > 100 THEN IntDiv(ISqrt(damage_joules), 10) ELSE 0
             k == [e EXCEPT !.vx = @ + Cos(angle) * force,
                            !.vy = @ + Sin(angle) * force]
         IN IF hp <= 0
            THEN [enemy |-> [k EXCEPT !.current_hp = hp, !.alive = FALSE,
                                      !.active = FALSE],
                  killed |-> TRUE]
            ELSE [enemy |-> [k EXCEPT !.current_hp = hp], killed |-> FALSE]

\* BasicEnemy.take_damage
EnemyTakeDamage(e, damage_joules, angle) ==
    IF ~e.alive THEN [enemy |-> e, killed |-> FALSE]
    ELSE LET hp == e.current_hp - damage_joules
             force == IF damage_joules > 100 THEN IntDiv(ISqrt(damage_joules), 10) ELSE 0
             k == [e EXCEPT !.vx = @ + Cos(angle) * force,
                            !.vy = @ + Sin(angle) * force]
         IN IF hp <= 0
            THEN [enemy |-> [k EXCEPT !.current_hp = 0, !.alive = FALSE,
                                      !.active = FALSE],
                  killed |-> TRUE]
            ELSE [enemy |-> [k EXCEPT !.current_hp = hp], killed |-> FALSE]

\* BasicEnemy.is_dead
EnemyIsDead(e) == ~e.alive

\* BasicEnemy.update; target, bci and si are the random draws of
\* _change_behavior and of the shooting timer.
BasicEnemyUpdate(e, delta_time, target, bci, si) ==
    IF ~e.alive THEN e
    ELSE LET bt == e.behavior_timer + delta_time
             change == bt >= e.behavior_change_interval
             tvx == IF change THEN SpeedScale(target) ELSE e.target_vx
             step == IntDiv(SpeedScale(100) * delta_time, TicksPerSecond)
             vx1 == IF e.vx < tvx THEN Min(tvx, e.vx + step)
                    ELSE IF e.vx > tvx THEN Max(tvx, e.vx - step) ELSE e.vx
             x1 == e.x + IntDiv(vx1 * delta_time, TicksPerSecond)
             y1 == e.y + IntDiv(e.vy * delta_time, TicksPerSecond)
             edge == x1 <= e.radius \/ x1 >= ScreenWidth - e.radius
             st == e.shoot_timer + delta_time
             shoot == st >= e.shoot_interval
         IN [e EXCEPT
               !.behavior_timer = IF change THEN 0 ELSE bt,
               !.behavior_change_interval = IF change THEN bci ELSE @,
               !.target_vx = IF edge THEN -tvx ELSE tvx,
               !.vx = IF edge THEN -vx1 ELSE vx1,
               !.x = IF edge THEN Max(e.radius, Min(ScreenWidth - e.radius, x1)) ELSE x1,
               !.y = y1,
               !.shoot_timer = IF shoot THEN 0 ELSE st,
               !.shoot_interval = IF shoot THEN si ELSE @]

---------------------------------------------------------------------------
(* UniversalCannon and EnemyMissileLauncher: construction *)

\* Heat is kept in half units, so that the cooling of 20 units per second is
\* one half unit per tick.
HeatScale == 1 + 1

\* UniversalCannon.__init__
NewCannon ==
    [last_shot_time |-> 0, muzzle_flash_timer |-> 0, heat_buildup |-> 0]

\* EnemyMissileLauncher.__init__ (with EnemyWeapon.__init__)
NewMissileLauncher(level) ==
    [level |-> level, last_shot_time |-> 0, ammo |-> 6 + level]

---------------------------------------------------------------------------
(* Bounds of the explored runs *)

MaxFrames == 3
ShieldCap == 500

---------------------------------------------------------------------------
(* The hull and shield of the ship and of one enemy *)

NoCall == [op |-> "none"]

\* fires: the first two fire() calls made on the cannon;
\* proj: per projectile identity, what the projectile has done so far.
NoHistory == [fires |-> << >>, proj |-> << >>]

\* the history entry of a projectile that has just been created
NewProjectile(kind) ==
    [kind |-> kind, detonations |-> 0, hits |-> 0, at_frame |-> 0,
     x |-> 0, y |-> 0]

\* The subsystems a specification leaves alone.
\* No game is running: the director's subsystems are not exercised.
NoGame == [mode |-> "none"]

QuietProjectiles ==
    /\ bombs = << >> /\ shots = << >> /\ beams = << >>
    /\ nextId = 1 /\ hist = NoHistory /\ game = NoGame
QuietWeapons ==
    /\ cannon = NewCannon /\ missile = NewMissileLauncher(1) /\ now = 0

InitShip ==
    /\ ship = NewShip
    /\ enemies = << NewEnemy("fighter", 1, 1000, 100, 0, 20,
                             2 * TicksPerSecond, 2 * TicksPerSecond) >>
    /\ frame = 0
    /\ call = NoCall
    /\ QuietProjectiles
    /\ QuietWeapons

ShipDamages == {0, 20000}
Rolls == {0, 99}
ShipDts == {40}

\* a caller applies damage to the player ship
ShipTakeDamageFrom(damages) ==
    \E d \in damages, roll \in Rolls, angle \in {"N"} :
        LET r == BreacherTakeDamage(ship, d, roll, angle)
        IN /\ ship.current_shield <= ShieldCap
           /\ ship' = r.ship
           /\ call' = [op |-> "ship.take_damage", damage |-> d,
                       evaded |-> r.evaded, killed |-> r.killed]
           /\ UNCHANGED <<game, enemies, bombs, shots, beams, cannon, missile, now,
                          frame, nextId, hist>>

ShipTakeDamage == ShipTakeDamageFrom(ShipDamages)

ModifierSets ==
    { [dodge_chance |-> 100, damage_resistance |-> 0,
       shield_capacity_bonus |-> 0, shield_regen_bonus |-> 0],
      [dodge_chance |-> 0, damage_resistance |-> 50,
       shield_capacity_bonus |-> 500, shield_regen_bonus |-> 20],
      [dodge_chance |-> 0, damage_resistance |-> 150,
       shield_capacity_bonus |-> 0, shield_regen_bonus |-> 0] }

\* the progression layer pushes modifiers into the ship
ApplyStatModifiers ==
    \E m \in ModifierSets :
        /\ ship' = ApplyStatModifiersTo(ship, m)
        /\ call' = [op |-> "ship.apply_stat_modifiers"]
        /\ UNCHANGED <<game, enemies, bombs, shots, beams, cannon, missile, now,
                       frame, nextId, hist>>

\* one frame of the ship
ShipUpdateWith(keysets) ==
    \E dt \in ShipDts, keys \in keysets :
        /\ frame < MaxFrames
        /\ frame' = frame + 1
        /\ ship' = BreacherUpdate(ship, dt, keys)
        /\ call' = [op |-> "ship.update"]
        /\ UNCHANGED <<game, enemies, bombs, shots, beams, cannon, missile, now,
                       nextId, hist>>

ShipUpdate == ShipUpdateWith(KeySets)

EnemyDamages == {0, 800, 2000}

\* a caller applies damage to the enemy
EnemyHit ==
    \E i \in DOMAIN enemies, d \in EnemyDamages, angle \in {"E"} :
        LET r == EnemyTakeDamage(enemies[i], d, angle)
        IN /\ enemies' = [enemies EXCEPT ![i] = r.enemy]
           /\ call' = [op |-> "enemy.take_damage", damage |-> d,
                       killed |-> r.killed]
           /\ UNCHANGED <<game, ship, bombs, shots, beams, cannon, missile, now,
                          frame, nextId, hist>>

\* one frame of the enemy
EnemyFrame ==
    \E i \in DOMAIN enemies, dt \in {8}, target \in {-60, 60} :
        /\ frame < MaxFrames
        /\ frame' = frame + 1
        /\ enemies' = [enemies EXCEPT ![i] =
                          BasicEnemyUpdate(@, dt, target, 2 * TicksPerSecond,
                                           2 * TicksPerSecond)]
        /\ call' = [op |-> "enemy.update"]
        /\ UNCHANGED <<game, ship, bombs, shots, beams, cannon, missile, now,
                       nextId, hist>>

NextShip ==
    \/ ShipTakeDamage
    \/ ApplyStatModifiers
    \/ ShipUpdate
    \/ EnemyHit
    \/ EnemyFrame

SpecShip == InitShip /\ [][NextShip]_vars

\* C2: for the ship and for the enemy the hull never drops below zero, and an
\* object that is dead stays dead, whatever take_damage, update and
\* stat-modifier calls follow.
HullFloorAndOneWayDeath ==
    [][ /\ ship.current_hp >= 0 /\ ship'.current_hp >= 0
        /\ ShipIsDead(ship) => ShipIsDead(ship')
        /\ \A i \in DOMAIN enemies :
              /\ enemies[i].current_hp >= 0 /\ enemies'[i].current_hp >= 0
              /\ EnemyIsDead(enemies[i]) => EnemyIsDead(enemies'[i]) ]_vars

\* Both objects are dead after an overkill hit and operations still follow.
DeadAndStillOperated ==
    /\ ShipIsDead(ship) /\ ship.current_hp = 0
    /\ EnemyIsDead(enemies[1]) /\ enemies[1].current_hp = 0
    /\ call.op = "ship.apply_stat_modifiers"
    /\ frame = MaxFrames

\* C4: a hit that is evaded returns not-killed and leaves the whole ship
\* (shield, hull, velocity, shield-regen timer) as it was; with a dodge chance
\* of 1.0 every hit is evaded.
EvadedHitChangesNothing ==
    [][ call'.op = "ship.take_damage" =>
          /\ call'.evaded => (ship' = ship /\ ~call'.killed)
          /\ ship.stat_modifiers.dodge_chance = 100 => call'.evaded ]_vars

\* An evaded hit on a ship whose shield is down and whose regeneration timer
\* is running: a hit that landed would have changed both.
EvadedWithTimerRunning ==
    /\ call.op = "ship.take_damage" /\ call.evaded /\ call.damage > 0
    /\ ship.stat_modifiers.dodge_chance = 100
    /\ ship.shield_regen_timer > 0
    /\ ship.current_shield = 0 /\ ship.current_hp > 0

---------------------------------------------------------------------------
(* take_damage as a function of shield, hull and damage *)

StartShields == {0, 100, 500, 620}
StartHulls == {0, 300, 1000, 24884}
PlainDamages == {0, 100, 200, 500, 700, 1500, 30000}

InitDamage ==
    /\ \E s \in StartShields, h \in StartHulls :
          ship = [ApplyStatModifiersTo(NewShip, [shield_capacity_bonus |-> 500])
                    EXCEPT !.current_shield = s, !.current_hp = h]
    /\ enemies = << >>
    /\ frame = 0
    /\ call = NoCall
    /\ QuietProjectiles
    /\ QuietWeapons

PlainHit == ShipTakeDamageFrom(PlainDamages)

NextDamage ==
    \/ PlainHit
    \/ ApplyStatModifiers

SpecDamage == InitDamage /\ [][NextDamage]_vars

\* C3: with dodge 0 and resistance 0, take_damage(d) on shield s and hull h
\* leaves shield max(0, s - d) and hull max(0, h - max(0, d - s)); the hull
\* only decreases in a call that leaves the shield at 0.
ShieldAbsorbsFirst ==
    [][ ( /\ call'.op = "ship.take_damage"
          /\ ship.stat_modifiers.dodge_chance = 0
          /\ ship.stat_modifiers.damage_resistance = 0 ) =>
        LET s == ship.current_shield
            h == ship.current_hp
            d == call'.damage
        IN /\ ship'.current_shield = Max(0, s - d)
           /\ ship'.current_hp = Max(0, h - Max(0, d - s))
           /\ ship'.current_hp < h => ship'.current_shield = 0 ]_vars

\* The example of the specification: shield 500, hull 1000, damage 700 gives
\* shield 0 and hull 800.
ExampleHit700 ==
    /\ call.op = "ship.take_damage" /\ call.damage = 700 /\ ~call.evaded
    /\ ship.stat_modifiers.dodge_chance = 0
    /\ ship.stat_modifiers.damage_resistance = 0
    /\ ship.current_shield = 0 /\ ship.current_hp = 800

---------------------------------------------------------------------------
(* ProjectileManager: creation of kinetic shots; UniversalCannon.fire *)

ShotLifetime == 5 * TicksPerSecond
ShotRadius == 2

\* DamageCalculator.calculate_projectile_damage: 0.5 * m * v^2 with the mass
\* in grams and the speed in m/s (velocity_kmh * 1000 / 3600).
ProjectileDamage(mass_g, speed_ms) == (mass_g * speed_ms * speed_ms) \div 2000

\* ProjectileManager.add_kinetic_shot: the list after the append.
AddKineticShot(list, id, x, y, vx, vy, mass_g, speed_ms, is_player_shot) ==
    Append(list,
           [id |-> id, x |-> x, y |-> y, vx |-> vx, vy |-> vy,
            is_player_shot |-> is_player_shot, active |-> TRUE,
            lifetime |-> ShotLifetime, radius |-> ShotRadius,
            joule_damage |-> ProjectileDamage(mass_g, speed_ms)])

\* ProjectileManager.clear_all_projectiles
ClearedList == << >>

ShotInterval == TicksPerSecond \div 8
BarrelCount == 2
BarrelSpacing == 15
CannonSpeed == 800
CannonShotMass == 500
HeatPerShot == 2 * HeatScale
MaxHeat == 100 * HeatScale
MuzzleFlash == TicksPerSecond \div 20

\* The velocity (vx, vy) of a shot fired straight up with the spread drawn by
\* random.uniform(-spread_angle, spread_angle): no spread, or the full pi/48
\* to either side.
SpreadDraws == {"none", "right"}
SpreadVx(d) == CASE d = "right" -> 52 [] d = "left" -> -52 [] OTHER -> 0
SpreadVy(d) == IF d = "none" THEN -CannonSpeed ELSE -798

\* UniversalCannon.can_fire
CanFire(c, current_time) ==
    (current_time - c.last_shot_time) >= ShotInterval

\* UniversalCannon.is_overheated
IsOverheated(c) == c.heat_buildup >= MaxHeat

\* The shots of one fire(): barrel b of 0..BarrelCount-1 at
\* ship.x + (b - 0.5) * barrel_spacing, ship.y - 20.
RECURSIVE FireBarrels(_, _, _, _, _)
FireBarrels(list, id, s, draws, b) ==
    IF b >= BarrelCount THEN list
    ELSE FireBarrels(
             AddKineticShot(list, id + b,
                            s.x + IntDiv((2 * b - 1) * BarrelSpacing, 2), s.y - 20,
                            SpreadVx(draws[b + 1]), SpreadVy(draws[b + 1]),
                            CannonShotMass, CannonSpeed, TRUE),
             id, s, draws, b + 1)

\* UniversalCannon.fire: the cannon and the shot list after the call and the
\* value returned.
CannonFire(c, list, id, s, current_time, draws) ==
    IF ~CanFire(c, current_time)
    THEN [cannon |-> c, shots |-> list, ok |-> FALSE, made |-> 0]
    ELSE [cannon |-> [c EXCEPT !.last_shot_time = current_time,
                               !.muzzle_flash_timer = MuzzleFlash,
                               !.heat_buildup = @ + HeatPerShot],
          shots |-> FireBarrels(list, id, s, draws, 0),
          ok |-> TRUE, made |-> BarrelCount]

\* UniversalCannon.update: cooling of 20 heat units per second.
CannonUpdate(c, delta_time) ==
    [c EXCEPT !.muzzle_flash_timer = IF @ > 0 THEN @ - delta_time ELSE @,
              !.heat_buildup = IF @ > 0
                               THEN Max(0, @ - (20 * HeatScale * delta_time)
                                                   \div TicksPerSecond)
                               ELSE @]

MaxShots == 4
MaxNow == 20
HeatHorizon == 260

\* The caller reads the clock, which has advanced by step, and calls fire().
FireAfter(steps, horizon) ==
    \E step \in steps, draws \in [1..BarrelCount -> SpreadDraws] :
        LET r == CannonFire(cannon, shots, nextId, ship, now + step, draws)
            rec == [t |-> now + step, ok |-> r.ok, made |-> Len(r.shots) - Len(shots),
                    heat_before |-> cannon.heat_buildup,
                    last_before |-> cannon.last_shot_time,
                    last_after |-> r.cannon.last_shot_time]
        IN /\ now + step <= horizon
           /\ Len(shots) + BarrelCount <= MaxShots
           /\ now' = now + step
           /\ cannon' = r.cannon
           /\ shots' = r.shots
           /\ nextId' = nextId + r.made
           /\ call' = [op |-> "cannon.fire"] @@ rec
           /\ hist' = [hist EXCEPT !.fires = IF Len(@) < 2 THEN Append(@, rec) ELSE @]
           /\ UNCHANGED <<game, ship, enemies, bombs, beams, missile, frame>>

\* one frame of the cannon
CannonFrame(dts) ==
    \E dt \in dts :
        /\ cannon' = CannonUpdate(cannon, dt)
        /\ cannon' # cannon
        /\ call' = [op |-> "cannon.update"]
        /\ UNCHANGED <<game, ship, enemies, bombs, shots, beams, missile, now, frame,
                       nextId, hist>>

\* ProjectileManager.clear_all_projectiles
ClearAllProjectiles ==
    /\ bombs' = ClearedList /\ shots' = ClearedList /\ beams' = ClearedList
    /\ call' = [op |-> "clear_all_projectiles"]
    /\ UNCHANGED <<game, ship, enemies, cannon, missile, now, frame, nextId, hist>>

InitCannon ==
    /\ ship = NewShip
    /\ enemies = << >>
    /\ frame = 0
    /\ call = NoCall
    /\ QuietProjectiles
    /\ QuietWeapons

GateFire == FireAfter({0, 2, 4, 8}, MaxNow)
GateFrame == CannonFrame({2})

NextCannon ==
    \/ GateFire
    \/ GateFrame
    \/ ClearAllProjectiles

SpecCannon == InitCannon /\ [][NextCannon]_vars

HeatFire == FireAfter({5}, HeatHorizon)
HeatFrame == CannonFrame({8, 40})

NextHeat ==
    \/ HeatFire
    \/ HeatFrame
    \/ ClearAllProjectiles

SpecHeat == InitCannon /\ [][NextHeat]_vars

\* C5 as stated: from a fresh cannon and for any time of the first call, a
\* second fire() 0.05 s after the first is rejected (no projectile,
\* last_shot_time unchanged), and two fire() calls 0.2 s apart both succeed.
CooldownGateFromFresh ==
    Len(hist.fires) = 2 =>
        LET f == hist.fires[1]
            g == hist.fires[2]
        IN /\ g.t - f.t = 2 =>
                (~g.ok /\ g.made = 0 /\ g.last_after = g.last_before)
           /\ g.t - f.t = 8 => (f.ok /\ g.ok)

\* C6 as stated: a fire() attempt made while heat >= max_heat is rejected.
OverheatedFireRejected ==
    (call.op = "cannon.fire" /\ call.heat_before >= MaxHeat) =>
        (~call.ok /\ call.made = 0)

---------------------------------------------------------------------------
(* EnemyWeapon / EnemyMissileLauncher *)

WeaponMaxRange == 600
MissileMass == 500

\* speed = 150 + level * 15
MissileSpeed(level) == 150 + level * 15

\* EnemyWeapon.can_fire without the ammunition test.
WeaponCanFireAnyAmmo(w, current_time) ==
    (current_time - w.last_shot_time) * (5 + w.level) >= 10 * TicksPerSecond

\* EnemyWeapon.can_fire: shot_interval = 1 / fire_rate seconds with
\* fire_rate = 0.5 + 0.1 * level, i.e. 10 / (5 + level) seconds.
WeaponCanFire(w, current_time) ==
    /\ (current_time - w.last_shot_time) * (5 + w.level) >= 10 * TicksPerSecond
    /\ w.ammo # 0

\* EnemyWeapon._calculate_firing_angle: None beyond max_range, else the aim
\* point (the target led by the time to impact).
InWeaponRange(shooter, target) ==
    LET dx == target[1] - shooter[1]
        dy == target[2] - shooter[2]
    IN ~(dx * dx + dy * dy > WeaponMaxRange * WeaponMaxRange)

AimPoint(shooter, target, target_velocity, speed) ==
    LET dx == target[1] - shooter[1]
        dy == target[2] - shooter[2]
        distance == ISqrt(dx * dx + dy * dy)
    IN << target[1] + IntDiv(target_velocity[1] * distance, speed),
          target[2] + IntDiv(target_velocity[2] * distance, speed) >>

\* (cos, sin) of atan2(dy, dx) times the speed.
AimedVelocity(shooter, aim, speed) ==
    LET dx == aim[1] - shooter[1]
        dy == aim[2] - shooter[2]
        len == ISqrt(dx * dx + dy * dy)
    IN IF len = 0 THEN << speed, 0 >>
       ELSE << IntDiv(dx * speed, len), IntDiv(dy * speed, len) >>

\* EnemyWeapon.fire with EnemyMissileLauncher._create_projectile
MissileFire(w, list, id, shooter, target, target_velocity, current_time) ==
    IF ~WeaponCanFire(w, current_time)
    THEN [weapon |-> w, shots |-> list, ok |-> FALSE]
    ELSE IF ~InWeaponRange(shooter, target)
    THEN [weapon |-> w, shots |-> list, ok |-> FALSE]
    ELSE LET speed == MissileSpeed(w.level)
             v == AimedVelocity(shooter,
                                AimPoint(shooter, target, target_velocity, speed),
                                speed)
         IN [weapon |-> [w EXCEPT !.last_shot_time = current_time,
                                  !.ammo = IF @ > 0 THEN @ - 1 ELSE @],
             shots |-> AddKineticShot(list, id, shooter[1], shooter[2],
                                      v[1], v[2], MissileMass, speed, FALSE),
             ok |-> TRUE]

MissileHorizon == 600
LauncherLevels == {1, 3}
ShooterPositions == { <<1920, 1500>>, <<1920, 1000>> }
MissileSteps == {0, 20, 80}

InitMissile ==
    /\ ship = NewShip
    /\ enemies = << >>
    /\ frame = 0
    /\ call = NoCall
    /\ QuietProjectiles
    /\ cannon = NewCannon
    /\ now = 0
    /\ \E level \in LauncherLevels : missile = NewMissileLauncher(level)

\* the weapon system reads the clock, which has advanced by step, and fires
\* the launcher at the player ship
MissileFireAfter ==
    \E step \in MissileSteps, shooter \in ShooterPositions :
        LET r == MissileFire(missile, shots, nextId, shooter,
                             <<ship.x, ship.y>>, <<ship.vx, ship.vy>>, now + step)
        IN /\ now + step <= MissileHorizon
           /\ Len(shots) < MaxShots
           /\ now' = now + step
           /\ missile' = r.weapon
           /\ shots' = r.shots
           /\ nextId' = nextId + (Len(r.shots) - Len(shots))
           /\ call' = [op |-> "missile.fire", ok |-> r.ok,
                       made |-> Len(r.shots) - Len(shots),
                       cooled |-> WeaponCanFireAnyAmmo(missile, now + step),
                       in_range |-> InWeaponRange(shooter, <<ship.x, ship.y>>)]
           /\ UNCHANGED <<game, ship, enemies, bombs, beams, cannon, frame, hist>>

NextMissile ==
    \/ MissileFireAfter
    \/ ClearAllProjectiles

SpecMissile == InitMissile /\ [][NextMissile]_vars

\* C7: the launcher's ammunition never increases and never goes below zero;
\* a successful fire() takes exactly one round, a rejected one takes none;
\* with no rounds left every fire() is rejected.
AmmoOnlyCountsDown ==
    [][ /\ missile'.ammo <= missile.ammo
        /\ missile'.ammo >= 0
        /\ call'.op = "missile.fire" =>
              /\ call'.ok => (missile'.ammo = missile.ammo - 1 /\ call'.made = 1)
              /\ ~call'.ok => (missile'.ammo = missile.ammo /\ call'.made = 0)
              /\ missile.ammo = 0 => ~call'.ok ]_vars

\* The launcher is empty and a fire() that was off cooldown and in range has
\* just been rejected.
EmptyLauncherRejects ==
    /\ missile.ammo = 0
    /\ call.op = "missile.fire" /\ ~call.ok /\ call.cooled /\ call.in_range

---------------------------------------------------------------------------
(* DamageCalculator: explosions, proximity fuse, energy weapons *)

\* Bomb statistics as the callers of add_bomb build them (masses in grams).
StandardBombStats ==
    [name |-> "standard_1", min_damage |-> 1, max_damage |-> 3, mass_g |-> 50000,
     velocity_kmh |-> 792, diameter_mm |-> 75, length_mm |-> 300,
     shrapnel_g |-> 5000]

RpgBombStats ==
    [name |-> "rpg_1", min_damage |-> 1673600, max_damage |-> 2510400,
     mass_g |-> 1500, velocity_kmh |-> 800, diameter_mm |-> 80,
     length_mm |-> 320, shrapnel_g |-> 1000]

\* The quantities of calculate_explosion_damage that are fractional powers,
\* evaluated for the warheads above: max_damage_radius^2, the pressure energy
\* E * eff at the centre and E * eff^3 (to divide by distance^2), the fragment
\* count, and max_shrapnel_range in 1/100 px.
WarheadPowers(stats) ==
    CASE stats.name = "rpg_1" ->
           [radius_sq |-> 2308, pressure_max |-> 919275,
            pressure_num |-> 1109414, fragments |-> 217, range_c |-> 3620]
      [] stats.name = "cluster_1" ->
           [radius_sq |-> 47983, pressure_max |-> 158810046,
            pressure_num |-> 186773163, fragments |-> 190, range_c |-> 5180]
      [] OTHER ->
           [radius_sq |-> 47983, pressure_max |-> 158810046,
            pressure_num |-> 186773163, fragments |-> 190, range_c |-> 4816]

\* DamageCalculator.create_warhead_data_from_db
CreateWarheadData(stats) ==
    [explosive_g |-> Max(100, stats.mass_g - stats.shrapnel_g - stats.mass_g \div 5),
     total_mass |-> stats.mass_g,
     velocity |-> IntDiv(stats.velocity_kmh * 1000, 3600),
     diameter_mm |-> stats.diameter_mm, length_mm |-> stats.length_mm,
     shrapnel_g |-> stats.shrapnel_g, powers |-> WarheadPowers(stats)]

\* squared distance of two points
DistSq(p, q) == (p[1] - q[1]) * (p[1] - q[1]) + (p[2] - q[2]) * (p[2] - q[2])

\* DamageCalculator._calculate_pressure_damage
PressureDamage(w, d2) ==
    IF d2 <= 1 THEN w.powers.pressure_max ELSE w.powers.pressure_num \div d2

\* DamageCalculator._calculate_shrapnel_damage
ShrapnelDamage(w, d2) ==
    LET total_ke == (w.shrapnel_g * w.velocity * w.velocity) \div 2000
        dist_c == IF d2 = 0 THEN 10 ELSE ISqrt(d2 * 10000)
        range_c == w.powers.range_c
        falloff4 == ((range_c - dist_c) * 10000) \div range_c
        hit5 == Min(100000, w.powers.fragments * ISqrt(falloff4))
        at_full == IntDiv(total_ke * falloff4, 10000)
    IN IF dist_c > range_c THEN 0
       ELSE IntDiv(at_full * (hit5 \div 100), 1000)

\* DamageCalculator.calculate_explosion_damage without the test of the
\* damage radius.
ExplosionDamageNoCutoff(center, target, w) ==
    LET d2 == DistSq(center, target)
    IN Max(0, PressureDamage(w, d2) + ShrapnelDamage(w, d2))

\* DamageCalculator.calculate_explosion_damage
ExplosionDamage(center, target, w) ==
    LET d2 == DistSq(center, target)
    IN IF d2 > w.powers.radius_sq THEN 0
       ELSE Max(0, PressureDamage(w, d2) + ShrapnelDamage(w, d2))

\* DamageCalculator.check_proximity_trigger: whether the fuse triggers.
\* targets holds the positions of the living enemies.
CheckProximityTrigger(pos, vel, targets, fuse_radius, delta_time) ==
    LET r2 == fuse_radius * fuse_radius
        next == << pos[1] + IntDiv(vel[1] * delta_time, TicksPerSecond),
                   pos[2] + IntDiv(vel[2] * delta_time, TicksPerSecond) >>
        current == \E t \in targets : DistSq(pos, t) <= r2
    IN \/ current
       \/ /\ delta_time > 0
          /\ \E t \in targets :
                /\ DistSq(next, t) <= r2
                /\ DistSq(next, t) < DistSq(pos, t)

\* DamageCalculator.calculate_energy_weapon_damage: power in kW, duration in
\* ms, so that power * duration is the energy in joules.
EnergyWeaponDamage(weapon, target, origin) ==
    LET energy == weapon.power_kw * weapon.duration_ms
        distance == ISqrt(DistSq(origin, target))
    IN CASE weapon.beam_type = "continuous" ->
              (energy * Max(20, 200 - distance)) \div 200
         [] weapon.beam_type = "pulse" ->
              (energy * Max(15, 300 - 2 * distance)) \div 300
         [] OTHER -> energy

---------------------------------------------------------------------------
(* ProjectileManager *)

CleanupMargin == 100
BombLifetime == 10 * TicksPerSecond
BombRadius == 7
BombProximityRadius == 23
BeamWidth == 3

\* ProjectileManager.add_bomb
AddBomb(list, id, x, y, vx, vy, stats, group_id) ==
    Append(list,
           [id |-> id, x |-> x, y |-> y, vx |-> vx, vy |-> vy,
            warhead_data |-> CreateWarheadData(stats), bomb_stats |-> stats,
            group_id |-> group_id, active |-> TRUE, lifetime |-> BombLifetime,
            radius |-> BombRadius, proximity_radius |-> BombProximityRadius])

\* ProjectileManager.add_energy_beam; duration in ticks
AddEnergyBeam(list, id, x, y, target_x, target_y, weapon, duration) ==
    Append(list,
           [id |-> id, x |-> x, y |-> y,
            start_x |-> x, start_y |-> y, end_x |-> target_x,
            end_y |-> target_y, remaining_duration |-> duration,
            active |-> TRUE, width |-> BeamWidth,
            joule_damage |-> EnergyWeaponDamage(weapon, <<target_x, target_y>>,
                                                <<x, y>>)])

\* ProjectileManager._is_in_bounds
IsInBounds(p) ==
    /\ -CleanupMargin <= p.x /\ p.x <= ScreenWidth + CleanupMargin
    /\ -CleanupMargin <= p.y /\ p.y <= ScreenHeight + CleanupMargin

\* ProjectileManager._point_to_line_distance(point, a, b) < width
WithinBeam(point, a, b, width) ==
    LET dx == b[1] - a[1]
        dy == b[2] - a[2]
        len2 == dx * dx + dy * dy
        dot == (point[1] - a[1]) * dx + (point[2] - a[2]) * dy
        cross == Abs((point[1] - a[1]) * dy - (point[2] - a[2]) * dx)
    IN IF len2 = 0 \/ dot <= 0 THEN DistSq(point, a) < width * width
       ELSE IF dot >= len2 THEN DistSq(point, b) < width * width
       ELSE IF cross >= width * (ISqrt(len2) + 1) THEN FALSE
       ELSE cross * cross < width * width * len2

\* The objects a ProjectileManager.update works on besides its own lists:
\* the enemies, the player ship, and the log of the take_damage calls and
\* detonations it makes (target 0 is the player ship).
World(es, s) == [enemies |-> es, ship |-> s, log |-> << >>]

Event(ev, src, target, amount, killed, x, y) ==
    [ev |-> ev, src |-> src, target |-> target, amount |-> amount,
     killed |-> killed, x |-> x, y |-> y]

\* Bind(F, v) is F(v) with v evaluated once, before F is applied.
Bind(F(_), v) == CHOOSE y \in { F(x) : x \in {v} } : TRUE

\* enemy.take_damage(amount) called for projectile p
HitEnemy(w, i, p, amount, angle) ==
    Bind(LAMBDA r :
           [w EXCEPT !.enemies[i] = r.enemy,
                     !.log = Append(@, Event("damage", p.id, i, amount, r.killed,
                                             p.x, p.y))],
         EnemyTakeDamage(w.enemies[i], amount, angle))

\* player_ship.take_damage(amount) called for projectile p
HitPlayer(w, p, amount, roll, angle) ==
    Bind(LAMBDA r :
           [w EXCEPT !.ship = r.ship,
                     !.log = Append(@, Event("damage", p.id, 0, amount, r.killed,
                                             p.x, p.y))],
         BreacherTakeDamage(w.ship, amount, roll, angle))

AlivePositions(es) == { <<es[i].x, es[i].y>> : i \in {j \in DOMAIN es : es[j].alive} }

\* ProjectileManager._detonate_bomb: the loop over the enemies
RECURSIVE ExplodeOnEnemies(_, _, _, _)
ExplodeOnEnemies(b, w, i, angle) ==
    IF i > Len(w.enemies) THEN w
    ELSE Bind(LAMBDA damage_joules :
                Bind(LAMBDA w2 : ExplodeOnEnemies(b, w2, i + 1, angle),
                     IF w.enemies[i].alive /\ damage_joules > 0
                     THEN HitEnemy(w, i, b, damage_joules, angle) ELSE w),
              ExplosionDamage(<<b.x, b.y>>, <<w.enemies[i].x, w.enemies[i].y>>,
                              b.warhead_data))

\* ProjectileManager._detonate_bomb without the reduction of friendly fire
DetonateBombFullFriendlyFire(b, w, roll, angle) ==
    Bind(LAMBDA w1 :
           Bind(LAMBDA player_damage :
                  IF player_damage > 0
                  THEN HitPlayer(w1, b, player_damage, roll, angle)
                  ELSE w1,
                ExplosionDamage(<<b.x, b.y>>, <<w1.ship.x, w1.ship.y>>,
                                b.warhead_data)),
         ExplodeOnEnemies(b,
                          [w EXCEPT !.log = Append(@, Event("detonate", b.id, 0, 0,
                                                            FALSE, b.x, b.y))],
                          1, angle))

\* ProjectileManager._detonate_bomb
DetonateBomb(b, w, roll, angle) ==
    Bind(LAMBDA w1 :
           Bind(LAMBDA player_damage :
                  IF player_damage > 0
                  THEN HitPlayer(w1, b, IntDiv(player_damage, 10), roll, angle)
                  ELSE w1,
                ExplosionDamage(<<b.x, b.y>>, <<w1.ship.x, w1.ship.y>>,
                                b.warhead_data)),
         ExplodeOnEnemies(b,
                          [w EXCEPT !.log = Append(@, Event("detonate", b.id, 0, 0,
                                                            FALSE, b.x, b.y))],
                          1, angle))

MoveProjectile(p, delta_time) ==
    [p EXCEPT !.x = @ + IntDiv(p.vx * delta_time, TicksPerSecond),
              !.y = @ + IntDiv(p.vy * delta_time, TicksPerSecond),
              !.lifetime = @ - delta_time]

FuseTriggers(m, w, delta_time) ==
    CheckProximityTrigger(<<m.x, m.y>>, <<m.vx, m.vy>>, AlivePositions(w.enemies),
                          m.proximity_radius, delta_time)

\* The body of the loop of _update_bombs for a bomb that is still armed
\* after its detonation.
BombStepStaysArmed(b, w, delta_time, roll, angle) ==
    IF ~b.active THEN [p |-> b, world |-> w]
    ELSE Bind(LAMBDA m :
                IF m.lifetime <= 0
                THEN [p |-> [m EXCEPT !.active = FALSE], world |-> w]
                ELSE IF FuseTriggers(m, w, delta_time)
                THEN [p |-> m, world |-> DetonateBomb(m, w, roll, angle)]
                ELSE [p |-> m, world |-> w],
              MoveProjectile(b, delta_time))

\* The body of the loop of _update_bombs with the proximity fuse tested
\* before the lifetime.
BombStepFuseFirst(b, w, delta_time, roll, angle) ==
    IF ~b.active THEN [p |-> b, world |-> w]
    ELSE Bind(LAMBDA m :
                IF FuseTriggers(m, w, delta_time)
                THEN [p |-> [m EXCEPT !.active = FALSE],
                      world |-> DetonateBomb(m, w, roll, angle)]
                ELSE IF m.lifetime <= 0
                THEN [p |-> [m EXCEPT !.active = FALSE], world |-> w]
                ELSE [p |-> m, world |-> w],
              MoveProjectile(b, delta_time))

\* The body of the loop of ProjectileManager._update_bombs
BombStep(b, w, delta_time, roll, angle) ==
    IF ~b.active THEN [p |-> b, world |-> w]
    ELSE Bind(LAMBDA m :
                IF m.lifetime <= 0
                THEN [p |-> [m EXCEPT !.active = FALSE], world |-> w]
                ELSE IF FuseTriggers(m, w, delta_time)
                THEN [p |-> [m EXCEPT !.active = FALSE],
                      world |-> DetonateBomb(m, w, roll, angle)]
                ELSE [p |-> m, world |-> w],
              MoveProjectile(b, delta_time))

\* The enemies a player shot at its new position collides with.
Colliding(sh, es) ==
    { i \in DOMAIN es :
        /\ es[i].alive
        /\ DistSq(<<sh.x, sh.y>>, <<es[i].x, es[i].y>>)
             < (sh.radius + es[i].radius) * (sh.radius + es[i].radius) }

RECURSIVE HitAll(_, _, _, _, _)
HitAll(w, targets, i, sh, angle) ==
    IF i > Len(w.enemies) THEN w
    ELSE Bind(LAMBDA w2 : HitAll(w2, targets, i + 1, sh, angle),
              IF i \in targets /\ w.enemies[i].alive
              THEN HitEnemy(w, i, sh, sh.joule_damage, angle) ELSE w)

\* The collision test of a shot against the player ship.
HitsPlayer(sh, s) ==
    DistSq(<<sh.x, sh.y>>, <<s.x, s.y>>)
        < (sh.radius + ShipRadius) * (sh.radius + ShipRadius)

\* The body of the loop of _update_kinetic_shots for a shot that goes on
\* through every enemy it touches and stays active.
ShotStepPiercing(sh, w, delta_time, roll, angle) ==
    IF ~sh.active THEN [p |-> sh, world |-> w]
    ELSE Bind(LAMBDA m :
                IF m.lifetime <= 0
                THEN [p |-> [m EXCEPT !.active = FALSE], world |-> w]
                ELSE IF m.is_player_shot
                THEN [p |-> m,
                      world |-> HitAll(w, Colliding(m, w.enemies), 1, m, angle)]
                ELSE IF HitsPlayer(m, w.ship)
                THEN [p |-> [m EXCEPT !.active = FALSE],
                      world |-> HitPlayer(w, m, m.joule_damage, roll, angle)]
                ELSE [p |-> m, world |-> w],
              MoveProjectile(sh, delta_time))

\* the first element of a set of list positions, in iteration order
First(targets) == CHOOSE i \in targets : \A j \in targets : i <= j

\* The body of the loop of _update_kinetic_shots for a shot that is tested
\* against the enemies and the player ship whoever fired it.
ShotStepHitsAnyone(sh, w, delta_time, roll, angle) ==
    IF ~sh.active THEN [p |-> sh, world |-> w]
    ELSE Bind(LAMBDA m :
                IF m.lifetime <= 0
                THEN [p |-> [m EXCEPT !.active = FALSE], world |-> w]
                ELSE IF Colliding(m, w.enemies) # {}
                THEN [p |-> [m EXCEPT !.active = FALSE],
                      world |-> HitEnemy(w, First(Colliding(m, w.enemies)), m,
                                         m.joule_damage, angle)]
                ELSE IF HitsPlayer(m, w.ship)
                THEN [p |-> [m EXCEPT !.active = FALSE],
                      world |-> HitPlayer(w, m, m.joule_damage, roll, angle)]
                ELSE [p |-> m, world |-> w],
              MoveProjectile(sh, delta_time))

\* The body of the loop of ProjectileManager._update_kinetic_shots
ShotStep(sh, w, delta_time, roll, angle) ==
    IF ~sh.active THEN [p |-> sh, world |-> w]
    ELSE Bind(LAMBDA m :
                IF m.lifetime <= 0
                THEN [p |-> [m EXCEPT !.active = FALSE], world |-> w]
                ELSE IF m.is_player_shot
                THEN IF Colliding(m, w.enemies) # {}
                     THEN [p |-> [m EXCEPT !.active = FALSE],
                           world |-> HitEnemy(w, First(Colliding(m, w.enemies)), m,
                                              m.joule_damage, angle)]
                     ELSE [p |-> m, world |-> w]
                ELSE IF HitsPlayer(m, w.ship)
                THEN [p |-> [m EXCEPT !.active = FALSE],
                      world |-> HitPlayer(w, m, m.joule_damage, roll, angle)]
                ELSE [p |-> m, world |-> w],
              MoveProjectile(sh, delta_time))

\* The whole pulse energy in every frame, not scaled by the frame time.
BeamDamageUnscaled(joule_damage, delta_time) == joule_damage

\* damage_this_frame = damage_joules_per_second * delta_time
BeamDamageThisFrame(joule_damage, delta_time) ==
    (joule_damage * delta_time) \div TicksPerSecond

EnemyInBeam(e, bm) ==
    WithinBeam(<<e.x, e.y>>, <<bm.start_x, bm.start_y>>, <<bm.end_x, bm.end_y>>,
               bm.width)

RECURSIVE BeamOnEnemies(_, _, _, _, _)
BeamOnEnemies(bm, w, i, delta_time, angle) ==
    IF i > Len(w.enemies) THEN w
    ELSE Bind(LAMBDA w2 : BeamOnEnemies(bm, w2, i + 1, delta_time, angle),
              IF w.enemies[i].alive /\ EnemyInBeam(w.enemies[i], bm)
              THEN HitEnemy(w, i, bm,
                            BeamDamageThisFrame(bm.joule_damage, delta_time), angle)
              ELSE w)

\* The body of the loop of ProjectileManager._update_energy_beams
BeamStep(bm, w, delta_time, roll, angle) ==
    IF ~bm.active THEN [p |-> bm, world |-> w]
    ELSE Bind(LAMBDA m :
                IF m.remaining_duration <= 0
                THEN [p |-> [m EXCEPT !.active = FALSE], world |-> w]
                ELSE [p |-> m, world |-> BeamOnEnemies(m, w, 1, delta_time, angle)],
              [bm EXCEPT !.remaining_duration = @ - delta_time])

\* The loops of _update_bombs, _update_kinetic_shots and
\* _update_energy_beams over the projectiles of one list, in list order.
RECURSIVE UpdateList(_, _, _, _, _, _, _)
UpdateList(kind, list, k, w, delta_time, roll, angle) ==
    IF k > Len(list) THEN [list |-> list, world |-> w]
    ELSE Bind(LAMBDA r :
                Bind(LAMBDA l2 :
                       UpdateList(kind, l2, k + 1, r.world, delta_time, roll, angle),
                     [list EXCEPT ![k] = r.p]),
              CASE kind = "bomb" -> BombStep(list[k], w, delta_time, roll, angle)
                [] kind = "shot" -> ShotStep(list[k], w, delta_time, roll, angle)
                [] OTHER -> BeamStep(list[k], w, delta_time, roll, angle))

\* ProjectileManager._cleanup_projectiles
CleanupFlying(list) ==
    LET Keep(p) == p.active /\ IsInBounds(p) IN SelectSeq(list, Keep)
CleanupBeams(list) ==
    LET Keep(p) == p.active IN SelectSeq(list, Keep)

\* ProjectileManager.update: the three lists before the cleanup (raw), after
\* it, and the world.
ProjectileUpdate(bs, ss, ms, es, s, delta_time, roll, angle) ==
    Bind(LAMBDA rb :
      Bind(LAMBDA rs :
        Bind(LAMBDA rm :
               [raw_bombs |-> rb.list, raw_shots |-> rs.list,
                raw_beams |-> rm.list,
                bombs |-> CleanupFlying(rb.list), shots |-> CleanupFlying(rs.list),
                beams |-> CleanupBeams(rm.list), world |-> rm.world],
             UpdateList("beam", ms, 1, rs.world, delta_time, roll, angle)),
        UpdateList("shot", ss, 1, rb.world, delta_time, roll, angle)),
      UpdateList("bomb", bs, 1, World(es, s), delta_time, roll, angle))

---------------------------------------------------------------------------
(* The projectile manager with two enemies and the player ship *)

MaxProjFrames == 4
MaxProjectiles == 2

InitProj ==
    /\ ship = NewShip
    /\ enemies = << NewEnemy("bomber", 3, 1000, 500, 0, 20,
                             2 * TicksPerSecond, 2 * TicksPerSecond),
                    NewEnemy("fighter", 1, 1015, 500, 0, 20,
                             2 * TicksPerSecond, 2 * TicksPerSecond) >>
    /\ frame = 0
    /\ call = NoCall
    /\ QuietProjectiles
    /\ QuietWeapons

Created(kind) ==
    /\ nextId <= MaxProjectiles
    /\ nextId' = nextId + 1
    /\ hist' = [hist EXCEPT !.proj = Append(@, NewProjectile(kind))]
    /\ call' = [op |-> "pm.add", kind |-> kind]

\* a weapon hands a bomb to the manager
BombAdded ==
    \E stats \in {RpgBombStats, StandardBombStats}, y \in {540, 560} :
        /\ Created("bomb")
        /\ bombs' = AddBomb(bombs, nextId, 1000, y, 0, -220, stats, "group")
        /\ UNCHANGED <<game, ship, enemies, shots, beams, cannon, missile, now, frame>>

\* a weapon hands a kinetic shot to the manager: a cannon round or a light
\* round of the player, or an enemy missile next to the ship
ShotAdded ==
    \E sh \in { [x |-> 1008, y |-> 580, vy |-> -800, mass |-> 500, speed |-> 800,
                 player |-> TRUE],
                [x |-> 1008, y |-> 580, vy |-> -800, mass |-> 10, speed |-> 800,
                 player |-> TRUE],
                [x |-> 1920, y |-> 1985, vy |-> 165, mass |-> 500, speed |-> 165,
                 player |-> FALSE] } :
        /\ Created("shot")
        /\ shots' = AddKineticShot(shots, nextId, sh.x, sh.y, 0, sh.vy, sh.mass,
                                   sh.speed, sh.player)
        /\ UNCHANGED <<game, ship, enemies, bombs, beams, cannon, missile, now, frame>>

BeamWeapons ==
    { [power_kw |-> 10, duration_ms |-> 100, beam_type |-> "direct"],
      [power_kw |-> 50000, duration_ms |-> 100, beam_type |-> "continuous"] }

\* a weapon hands an energy beam to the manager
BeamAdded ==
    \E weapon \in BeamWeapons, duration \in {12} :
        /\ Created("beam")
        /\ beams' = AddEnergyBeam(beams, nextId, 900, 501, 1100, 501, weapon,
                                  duration)
        /\ UNCHANGED <<game, ship, enemies, bombs, shots, cannon, missile, now, frame>>

CountEvents(log, id, ev) ==
    Cardinality({k \in DOMAIN log : log[k].src = id /\ log[k].ev = ev})

RECURSIVE Recorded(_, _, _, _)
Recorded(proj, log, f, id) ==
    IF id > Len(proj) THEN proj
    ELSE LET dets == {k \in DOMAIN log : log[k].src = id /\ log[k].ev = "detonate"}
             d == CHOOSE k \in dets : TRUE
             e == [proj[id] EXCEPT
                     !.detonations = @ + Cardinality(dets),
                     !.hits = @ + CountEvents(log, id, "damage"),
                     !.at_frame = IF dets # {} THEN f ELSE @,
                     !.x = IF dets # {} THEN log[d].x ELSE @,
                     !.y = IF dets # {} THEN log[d].y ELSE @]
         IN Recorded([proj EXCEPT ![id] = e], log, f, id + 1)

\* one frame of the projectile manager
ProjectileFrame ==
    \E dt \in {4}, roll \in {99}, angle \in {"E"} :
        \E r \in {ProjectileUpdate(bombs, shots, beams, enemies, ship, dt, roll,
                                   angle)} :
           /\ frame < MaxProjFrames
           /\ frame' = frame + 1
           /\ bombs' = r.bombs /\ shots' = r.shots /\ beams' = r.beams
           /\ enemies' = r.world.enemies
           /\ ship' = r.world.ship
           /\ call' = [op |-> "pm.update", dt |-> dt, log |-> r.world.log,
                       raw_bombs |-> r.raw_bombs, raw_shots |-> r.raw_shots]
           /\ hist' = [hist EXCEPT !.proj = Recorded(@, r.world.log, frame + 1, 1)]
           /\ UNCHANGED <<game, cannon, missile, now, nextId>>

NextProj ==
    \/ BombAdded
    \/ ShotAdded
    \/ BeamAdded
    \/ ProjectileFrame
    \/ EnemyFrame

SpecProj == InitProj /\ [][NextProj]_vars

\* a step that is one ProjectileManager.update
IsProjectileFrame == frame' = frame + 1 /\ call'.op = "pm.update"

EventsOf(log, id) == {k \in DOMAIN log : log[k].src = id}

Raw(list, id) == {k \in DOMAIN list : list[k].id = id}

\* C1: over any sequence of ProjectileManager.update calls a bomb detonates at
\* most once; the frame that detonates it leaves it inactive and out of the
\* bomb list, and in no later frame does it detonate or cause a take_damage
\* call again.
BombDetonatesOnce ==
    [][IsProjectileFrame =>
         \A id \in DOMAIN hist.proj :
            hist.proj[id].kind = "bomb" =>
               /\ hist'.proj[id].detonations <= 1
               /\ hist.proj[id].detonations > 0
                    => /\ EventsOf(call'.log, id) = {}
                       /\ Raw(bombs, id) = {}
               /\ CountEvents(call'.log, id, "detonate") > 0
                    => /\ Raw(bombs', id) = {}
                       /\ \A k \in Raw(call'.raw_bombs, id) :
                             ~call'.raw_bombs[k].active
               /\ CountEvents(call'.log, id, "damage") > 0
                    => CountEvents(call'.log, id, "detonate") = 1]_vars

\* A bomb went off in an earlier frame next to an enemy that survived it, the
\* enemy is still alive within the bomb's proximity radius of the place of the
\* detonation, and another update has run since.
DetonatedBombNextToLivingEnemy ==
    /\ call.op = "pm.update"
    /\ \E id \in DOMAIN hist.proj :
          /\ hist.proj[id].kind = "bomb"
          /\ hist.proj[id].detonations = 1
          /\ hist.proj[id].hits > 0
          /\ hist.proj[id].at_frame < frame
          /\ \E i \in DOMAIN enemies :
                /\ enemies[i].alive
                /\ DistSq(<<hist.proj[id].x, hist.proj[id].y>>,
                          <<enemies[i].x, enemies[i].y>>)
                     <= BombProximityRadius * BombProximityRadius

\* C9: in every frame each beam that is active and has not expired applies
\* joule_damage * dt, once, to every enemy within its width that is alive, and
\* nothing to any other enemy; frames add up, they are never one lump.
BeamDamagePerFrame ==
    [][IsProjectileFrame =>
         \A b \in DOMAIN beams : \A i \in DOMAIN enemies :
            LET bm == beams[b]
                hits == {k \in EventsOf(call'.log, bm.id) : call'.log[k].target = i}
                burning == bm.active /\ bm.remaining_duration - call'.dt > 0
            IN /\ Cardinality(hits) <= 1
               /\ \A k \in hits :
                     /\ call'.log[k].ev = "damage"
                     /\ call'.log[k].amount * TicksPerSecond
                            = bm.joule_damage * call'.dt
                     /\ burning /\ enemies[i].alive /\ EnemyInBeam(enemies[i], bm)
               /\ burning /\ enemies'[i].alive /\ EnemyInBeam(enemies[i], bm)
                    => hits # {}]_vars

\* The only projectile ever created is a beam of 1000 J per second; after two
\* frames of 0.1 s it has hit the first enemy in both, with 100 J in the last
\* one, and the enemy has lost 200 J.
BeamHitTwiceFor100 ==
    /\ call.op = "pm.update" /\ call.dt * 10 = TicksPerSecond
    /\ Len(hist.proj) = 1 /\ hist.proj[1].kind = "beam"
    /\ \A k \in DOMAIN beams : beams[k].joule_damage = 1000
    /\ beams # << >>
    /\ \E k \in DOMAIN call.log :
          /\ call.log[k].src = 1 /\ call.log[k].target = 1
          /\ call.log[k].amount = 100
    /\ enemies[1].alive
    /\ enemies[1].current_hp = enemies[1].max_hp - 200

\* C10: a kinetic shot causes at most one take_damage call in its lifetime;
\* the call is on the first enemy in list order that it touches (or on the
\* player ship for an enemy shot), and the shot is inactive and out of the
\* list from that call on.
ShotHitsOnce ==
    [][IsProjectileFrame =>
         \A id \in DOMAIN hist.proj :
            hist.proj[id].kind = "shot" =>
               /\ hist'.proj[id].hits <= 1
               /\ hist.proj[id].hits > 0 => /\ EventsOf(call'.log, id) = {}
                                            /\ Raw(shots, id) = {}
               /\ \A k \in EventsOf(call'.log, id) :
                     /\ Raw(shots', id) = {}
                     /\ \A n \in Raw(call'.raw_shots, id) :
                           ~call'.raw_shots[n].active
                     /\ \A n \in Raw(shots, id) :
                           IF shots[n].is_player_shot
                           THEN /\ call'.log[k].target \in DOMAIN enemies
                                /\ \A j \in 1..(call'.log[k].target - 1) :
                                      ~(/\ enemies'[j].alive
                                        /\ j \in Colliding(call'.raw_shots[n],
                                                           enemies'))
                           ELSE call'.log[k].target = 0]_vars

\* A player shot touched both enemies in one frame; it hit the first, which
\* survived, and the second, untouched, is alive too.
ShotTouchedTwoHitFirst ==
    /\ call.op = "pm.update"
    /\ \E k \in DOMAIN call.log :
          /\ call.log[k].ev = "damage" /\ call.log[k].target = 1
          /\ hist.proj[call.log[k].src].kind = "shot"
          /\ hist.proj[call.log[k].src].hits = 1
          /\ \A i \in {1, 2} :
                /\ enemies[i].alive
                /\ DistSq(<<call.log[k].x, call.log[k].y>>,
                          <<enemies[i].x, enemies[i].y>>)
                     < (ShotRadius + enemies[i].radius)
                         * (ShotRadius + enemies[i].radius)
    /\ enemies[2].current_hp = enemies[2].max_hp

---------------------------------------------------------------------------
(* The bomb volleys of the Breacher and of the progression layer *)

\* The launch angles in tenths of a degree, and their cosine and sine
\* times 10000.
Cos10k(a) ==
    CASE a = -900 -> 0 [] a = -1050 -> -2588 [] a = -975 -> -1305
      [] a = -825 -> 1305 [] OTHER -> 2588

Sin10k(a) ==
    CASE a = -900 -> -10000 [] a = -1050 -> -9659 [] a = -975 -> -9914
      [] a = -825 -> -9914 [] OTHER -> -9659

\* The launches of a volley handed to add_bomb one after the other.
RECURSIVE AddBombs(_, _, _, _, _)
AddBombs(list, id, launches, stats, group_ids) ==
    IF launches = << >> THEN list
    ELSE AddBombs(AddBomb(list, id, Head(launches).x, Head(launches).y,
                          Head(launches).vx, Head(launches).vy, stats,
                          Head(group_ids)),
                  id + 1, Tail(launches), stats, Tail(group_ids))

\* BreacherShip._apply_stat_bonuses_to_bomb
ApplyStatBonusesToBomb(s, base_bomb_stats) ==
    LET m == s.stat_modifiers
        bonus == m.explosive_bonus_kg
        shrapnel == base_bomb_stats.shrapnel_g + (IF bonus > 0 THEN bonus ELSE 0)
        Increased(d) == IF bonus > 0 THEN IntDiv(d * (shrapnel + bonus), shrapnel)
                        ELSE d
        Multiplied(d) == IntDiv(Increased(d) * m.explosive_damage_mult, 100)
        Overcharged(d) == IF s.overcharge_active THEN IntDiv(Multiplied(d) * 3, 2)
                          ELSE Multiplied(d)
    IN [base_bomb_stats EXCEPT !.shrapnel_g = shrapnel,
                               !.min_damage = Overcharged(@),
                               !.max_damage = Overcharged(@)]

BreachAngles == << -900, -1050, -975, -825, -750 >>

BreachLaunches(x, y, angles, velocity_ms) ==
    [k \in DOMAIN angles |->
        [x |-> x, y |-> y - 25,
         vx |-> IntDiv(Cos10k(angles[k]) * velocity_ms, 10000),
         vy |-> IntDiv(Sin10k(angles[k]) * velocity_ms, 10000)]]

Repeat(v, n) == [k \in 1..n |-> v]

\* BreacherShip._fire_breach_bomb that launches without looking at the
\* cooldowns.
BreacherFireBreachBombAnyTime(s, list, id, group_id) ==
    LET stats == ApplyStatBonusesToBomb(s, StandardBombStats)
        velocity_ms == IntDiv(stats.velocity_kmh * 1000, 3600)
        launches == BreachLaunches(s.x, s.y, BreachAngles, velocity_ms)
    IN [ship |-> [s EXCEPT !.breach_bomb_uses = @ + 1,
                           !.cooldowns["breach_bomb"] =
                               [present |-> TRUE,
                                t |-> IntDiv(4 * TicksPerSecond
                                               * s.stat_modifiers.cooldown_mult,
                                             100)]],
        bombs |-> AddBombs(list, id, launches, stats,
                           Repeat(group_id, Len(launches))),
        ok |-> TRUE]

\* BreacherShip._fire_breach_bomb: the ship and the bomb list after the call,
\* and the value returned.
BreacherFireBreachBomb(s, list, id, group_id) ==
    IF OnCooldown(s, "breach_bomb") THEN [ship |-> s, bombs |-> list, ok |-> FALSE]
    ELSE LET stats == ApplyStatBonusesToBomb(s, StandardBombStats)
             velocity_ms == IntDiv(stats.velocity_kmh * 1000, 3600)
             launches == BreachLaunches(s.x, s.y, BreachAngles, velocity_ms)
         IN [ship |-> [s EXCEPT !.breach_bomb_uses = @ + 1,
                                !.cooldowns["breach_bomb"] =
                                    [present |-> TRUE,
                                     t |-> IntDiv(4 * TicksPerSecond
                                                    * s.stat_modifiers.cooldown_mult,
                                                  100)]],
             bombs |-> AddBombs(list, id, launches, stats,
                                Repeat(group_id, Len(launches))),
             ok |-> TRUE]

ClusterOffsets == << -3, -2, -1, 0, 1, 2, 3 >>

\* BreacherShip._fire_cluster_strike that divides the base cooldown by the
\* cooldown modifier.
BreacherFireClusterStrikeDivided(s, list, id, group_id) ==
    IF OnCooldown(s, "cluster_strike")
    THEN [ship |-> s, bombs |-> list, ok |-> FALSE]
    ELSE LET enhanced == ApplyStatBonusesToBomb(s, StandardBombStats)
             stats == [enhanced EXCEPT
                         !.name = "cluster_1",
                         !.min_damage = IntDiv(@ * 3, 4),
                         !.max_damage = IntDiv(@ * 3, 4),
                         !.velocity_kmh = IntDiv(@ * 12, 10)]
             launches == [k \in DOMAIN ClusterOffsets |->
                            [x |-> s.x + ClusterOffsets[k] * 40, y |-> s.y - 25,
                             vx |-> 0,
                             vy |-> -IntDiv(stats.velocity_kmh * 12000, 36000)]]
         IN [ship |-> [s EXCEPT !.cooldowns["cluster_strike"] =
                                    [present |-> TRUE,
                                     t |-> IntDiv(3 * TicksPerSecond * 100,
                                                  s.stat_modifiers.cooldown_mult)]],
             bombs |-> AddBombs(list, id, launches, stats,
                                Repeat(group_id, Len(launches))),
             ok |-> TRUE]

\* BreacherShip._fire_cluster_strike
BreacherFireClusterStrike(s, list, id, group_id) ==
    IF OnCooldown(s, "cluster_strike")
    THEN [ship |-> s, bombs |-> list, ok |-> FALSE]
    ELSE LET enhanced == ApplyStatBonusesToBomb(s, StandardBombStats)
             stats == [enhanced EXCEPT
                         !.name = "cluster_1",
                         !.min_damage = IntDiv(@ * 3, 4),
                         !.max_damage = IntDiv(@ * 3, 4),
                         !.velocity_kmh = IntDiv(@ * 12, 10)]
             launches == [k \in DOMAIN ClusterOffsets |->
                            [x |-> s.x + ClusterOffsets[k] * 40, y |-> s.y - 25,
                             vx |-> 0,
                             vy |-> -IntDiv(stats.velocity_kmh * 12000, 36000)]]
         IN [ship |-> [s EXCEPT !.cooldowns["cluster_strike"] =
                                    [present |-> TRUE,
                                     t |-> IntDiv(3 * TicksPerSecond
                                                    * s.stat_modifiers.cooldown_mult,
                                                  100)]],
             bombs |-> AddBombs(list, id, launches, stats,
                                Repeat(group_id, Len(launches))),
             ok |-> TRUE]

\* BreacherShip._activate_overcharge that looks at the cooldown only
BreacherActivateOverchargeStacking(s, list) ==
    IF OnCooldown(s, "overcharge_warheads")
    THEN [ship |-> s, bombs |-> list, ok |-> FALSE]
    ELSE [ship |-> [s EXCEPT !.overcharge_active = TRUE,
                             !.overcharge_timer = 5 * TicksPerSecond,
                             !.cooldowns["overcharge_warheads"] =
                                 [present |-> TRUE,
                                  t |-> IntDiv(15 * TicksPerSecond
                                                 * s.stat_modifiers.cooldown_mult,
                                               100)]],
          bombs |-> list, ok |-> TRUE]

\* BreacherShip._activate_overcharge
BreacherActivateOvercharge(s, list) ==
    IF OnCooldown(s, "overcharge_warheads") \/ s.overcharge_active
    THEN [ship |-> s, bombs |-> list, ok |-> FALSE]
    ELSE [ship |-> [s EXCEPT !.overcharge_active = TRUE,
                             !.overcharge_timer = 5 * TicksPerSecond,
                             !.cooldowns["overcharge_warheads"] =
                                 [present |-> TRUE,
                                  t |-> IntDiv(15 * TicksPerSecond
                                                 * s.stat_modifiers.cooldown_mult,
                                               100)]],
          bombs |-> list, ok |-> TRUE]

\* BreacherShip.fire_special_weapon
FireSpecialWeapon(s, ability_name, list, id, group_id) ==
    CASE ability_name = "breach_bomb" -> BreacherFireBreachBomb(s, list, id, group_id)
      [] ability_name = "cluster_strike" ->
            BreacherFireClusterStrike(s, list, id, group_id)
      [] ability_name = "overcharge_warheads" -> BreacherActivateOvercharge(s, list)
      [] OTHER -> [ship |-> s, bombs |-> list, ok |-> FALSE]

RpgAngles == << -1050, -975, -900, -825, -750 >>

\* ProgressionIntegrator.fire_breach_bomb for a player of attack 1: the bomb
\* list after the call, and the cooldown returned (RPGBombSystem.base_cooldown).
ProgressionFireBreachBomb(list, id, ship_pos, group_ids) ==
    [bombs |-> AddBombs(list, id,
                        BreachLaunches(ship_pos[1], ship_pos[2], RpgAngles,
                                       IntDiv(800 * 1000, 3600)),
                        RpgBombStats, group_ids),
     cooldown |-> 4 * TicksPerSecond]

\* InputManager._fire_breach_bomb_rpg; wired tells whether set_managers has
\* given the input manager its projectile and progression managers.
FireBreachBombRpg(s, list, id, wired, group_ids) ==
    IF ~wired \/ OnCooldown(s, "breach_bomb")
    THEN [ship |-> s, bombs |-> list, ok |-> FALSE]
    ELSE LET r == ProgressionFireBreachBomb(list, id, <<s.x, s.y>>, group_ids)
         IN [ship |-> [s EXCEPT !.cooldowns["breach_bomb"] =
                                    [present |-> TRUE, t |-> r.cooldown]],
             bombs |-> r.bombs, ok |-> TRUE]

MaxVolleyIds == 13

InitVolley ==
    /\ ship = NewShip
    /\ enemies = << >>
    /\ frame = 0
    /\ call = NoCall
    /\ QuietProjectiles
    /\ QuietWeapons

PerkModifiers ==
    { [cooldown_mult |-> 50, explosive_damage_mult |-> 150] }

\* the progression layer pushes perk modifiers into the ship
ApplyPerkModifiers ==
    \E m \in PerkModifiers :
        /\ ship' = ApplyStatModifiersTo(ship, m)
        /\ call' = [op |-> "ship.apply_stat_modifiers"]
        /\ UNCHANGED <<game, enemies, bombs, shots, beams, cannon, missile, now,
                       frame, nextId, hist>>

Volley(op, ability, r) ==
    /\ nextId + (Len(r.bombs) - Len(bombs)) <= MaxVolleyIds
    /\ ship' = r.ship
    /\ bombs' = r.bombs
    /\ nextId' = nextId + (Len(r.bombs) - Len(bombs))
    /\ call' = [op |-> op, ability |-> ability, ok |-> r.ok]
    /\ UNCHANGED <<game, enemies, shots, beams, cannon, missile, now, frame, hist>>

\* a key press that reaches BreacherShip.fire_special_weapon
FireSpecial ==
    \E ability_name \in Abilities, group_id \in {1000} :
        Volley("ship.fire_special_weapon", ability_name,
               FireSpecialWeapon(ship, ability_name, bombs, nextId, group_id))

\* the space key of the game director
FireRpg ==
    \E wired \in BOOLEAN, group_ids \in {<<1000, 1000, 2000, 3000, 9999>>} :
        Volley("input.fire_breach_bomb_rpg", "breach_bomb",
               FireBreachBombRpg(ship, bombs, nextId, wired, group_ids))

\* one frame of the ship under thrust
VolleyShipUpdate == ShipUpdateWith({{"RIGHT", "UP"}})

\* the projectile lists are emptied between waves
VolleyCleared ==
    /\ bombs # << >>
    /\ ClearAllProjectiles

NextVolley ==
    \/ FireSpecial
    \/ FireRpg
    \/ ApplyPerkModifiers
    \/ VolleyShipUpdate
    \/ VolleyCleared

SpecVolley == InitVolley /\ [][NextVolley]_vars

VolleySize(ability) ==
    CASE ability = "breach_bomb" -> 5 [] ability = "cluster_strike" -> 7 [] OTHER -> 0

\* C8: every breach-bomb attempt, on either path, adds exactly 5 bombs or
\* none, every cluster-strike attempt exactly 7 or none, at the end of the
\* list; an attempt on a cooling ability adds none and leaves the cooldowns
\* as they were, and any other attempt sets the cooldown entry if and only if
\* it added the full volley.
VolleyAllOrNothing ==
    [][call'.op \in {"ship.fire_special_weapon", "input.fire_breach_bomb_rpg"}
         /\ call'.ability \in {"breach_bomb", "cluster_strike"}
       => LET added == Len(bombs') - Len(bombs)
              a == call'.ability
          IN /\ added \in {0, VolleySize(a)}
             /\ SubSeq(bombs', 1, Len(bombs)) = bombs
             /\ OnCooldown(ship, a)
                  => added = 0 /\ ship'.cooldowns = ship.cooldowns
             /\ ~OnCooldown(ship, a)
                  => (OnCooldown(ship', a) <=> added = VolleySize(a))]_vars

\* The director's volley and a cluster strike are in the list, twelve bombs,
\* and the ship's own breach bomb has just been refused because the ability
\* is cooling.
RefusedOnCooldownAfterVolleys ==
    /\ call.op = "ship.fire_special_weapon" /\ call.ability = "breach_bomb"
    /\ ~call.ok
    /\ OnCooldown(ship, "breach_bomb")
    /\ ship.breach_bomb_uses = 0
    /\ Len(bombs) = 12
    /\ \E k \in DOMAIN bombs : bombs[k].bomb_stats.name = "rpg_1"
    /\ \E k \in DOMAIN bombs : bombs[k].bomb_stats.name = "cluster_1"

---------------------------------------------------------------------------
(* ProgressionIntegrator, InputManager and EnemyManager of the game director *)

\* ProgressionIntegrator.__init__ (with InventorySystem.__init__)
NewProgression ==
    [player_level |-> 1, experience |-> 0, stat_points |-> 0,
     attack |-> 1, defense |-> 1, evasion |-> 1, shield |-> 1,
     show_level_up |-> FALSE, level_up_timer |-> 0,
     show_stat_allocation |-> FALSE, kerr_scrap |-> 0]

\* DropSystem.award_drops: the list of drops; drop_roll is random.random()
\* in percent.
AwardDrops(enemy_level, drop_roll) ==
    IF drop_roll < 40
    THEN << [type |-> "kerr_scrap", amount |-> 1 + enemy_level] >>
    ELSE << >>

\* ProgressionIntegrator.on_enemy_killed: the progression after the call and
\* the dictionary it returns.
ProgressionOnEnemyKilled(p, enemy_type, enemy_level, drop_roll) ==
    LET exp_gained == 10 + enemy_level * 3
        experience == p.experience + exp_gained
        exp_needed == 100 + (p.player_level - 1) * 50
        leveled_up == experience >= exp_needed
        drops == AwardDrops(enemy_level, drop_roll)
        q == [p EXCEPT
                !.experience = IF leveled_up THEN experience - exp_needed
                               ELSE experience,
                !.player_level = IF leveled_up THEN @ + 1 ELSE @,
                !.stat_points = IF leveled_up THEN @ + 1 ELSE @,
                !.show_level_up = IF leveled_up THEN TRUE ELSE @,
                !.level_up_timer = IF leveled_up THEN 3 * TicksPerSecond ELSE @,
                !.kerr_scrap = IF drops # << >> THEN @ + drops[1].amount ELSE @]
    IN [prog |-> q,
        result |-> [exp_gained |-> exp_gained, leveled_up |-> leveled_up,
                    drops |-> drops]]

\* ProgressionIntegrator.update
ProgressionUpdate(p, delta_time) ==
    IF p.level_up_timer > 0
    THEN LET t == p.level_up_timer - delta_time
         IN [p EXCEPT !.level_up_timer = t,
                      !.show_level_up = IF t <= 0 THEN FALSE ELSE @,
                      !.show_stat_allocation =
                          IF t <= 0 /\ p.stat_points > 0 THEN TRUE ELSE @]
    ELSE p

\* ProgressionIntegrator.allocate_stat_point
AllocateStatPoint(p, stat_name) ==
    IF p.stat_points <= 0 THEN p
    ELSE [p EXCEPT !.attack = IF stat_name = "attack" THEN @ + 1 ELSE @,
                   !.defense = IF stat_name = "defense" THEN @ + 1 ELSE @,
                   !.evasion = IF stat_name = "evasion" THEN @ + 1 ELSE @,
                   !.shield = IF stat_name = "shield" THEN @ + 1 ELSE @,
                   !.stat_points = @ - 1]

\* The value None
None == [none |-> TRUE]

\* InputManager.on_enemy_killed: None without a progression manager.
InputOnEnemyKilled(has_progression, p, enemy_level, enemy_type, drop_roll) ==
    IF has_progression
    THEN ProgressionOnEnemyKilled(p, enemy_type, enemy_level, drop_roll)
    ELSE [prog |-> p, result |-> None]

\* EnemyManager.__init__; the list of enemies is the variable enemies.
NewEnemyManager ==
    [current_wave |-> 1, enemies_to_spawn |-> 0, spawn_timer |-> 0,
     spawn_interval |-> 2 * TicksPerSecond, wave_complete |-> FALSE,
     wave_completion_timer |-> 0, enemies_killed_this_wave |-> 0,
     total_enemies_killed |-> 0, input_manager |-> FALSE]

\* EnemyManager.start_wave; max(0.5, 2.0 - 0.1 n) seconds is
\* max(20, 80 - 4 n) ticks.
StartWave(m, wave_number) ==
    [m EXCEPT !.current_wave = wave_number,
              !.wave_complete = FALSE,
              !.wave_completion_timer = 0,
              !.enemies_killed_this_wave = 0,
              !.enemies_to_spawn = 5 + (wave_number - 1) * 2,
              !.spawn_interval = Max(TicksPerSecond \div 2,
                                     2 * TicksPerSecond
                                       - (wave_number * TicksPerSecond) \div 10)]

\* -spawn_offset of _calculate_spawn_positions: max(25, int(50 * 12.96 / 13))
SpawnY == -Max(25, SpeedScale(50))

\* x of the spawn position i (0..7): screen_width / 9 * (i + 1), rounded
SpawnX(i) == (2 * ScreenWidth * (i + 1) + 9) \div 18

\* the enemy types _spawn_enemy chooses from in a wave
SpawnTypes(wave) ==
    IF wave <= 2 THEN {"fighter"}
    ELSE IF wave <= 5 THEN {"fighter", "bomber"}
    ELSE {"fighter", "bomber", "scout"}

\* EnemyManager._spawn_enemy; d holds the random draws: the spawn position,
\* the type, the level variance and the draws of BasicEnemy.__init__.
SpawnEnemy(m, es, d) ==
    IF m.enemies_to_spawn <= 0 THEN [mgr |-> m, enemies |-> es]
    ELSE [mgr |-> [m EXCEPT !.enemies_to_spawn = @ - 1],
          enemies |-> Append(es,
              NewEnemy(d.type, Max(1, m.current_wave \div 3) + d.variance,
                       SpawnX(d.position), SpawnY, d.vx0, d.vy0, d.bci, d.si))]

\* BasicEnemy.is_off_screen
IsOffScreen(e, screen_height) == e.y > screen_height + 50

\* The keys EnemyManager.update reads from a progression result.
ResultKeysRead == {"exp_gained", "leveled_up", "drop"}

\* The loop of EnemyManager.update over the copy of the enemy list, from its
\* k-th element. acc.enemies are the enemies kept so far; a KeyError ends the
\* loop with the dead enemy and the enemies behind it still in the list.
RECURSIVE EnemyLoop(_, _, _, _, _, _)
EnemyLoop(copy, k, acc, delta_time, has_progression, d) ==
    IF k > Len(copy) THEN acc
    ELSE
      Bind(LAMBDA e :
        IF ~e.alive
        THEN IF acc.mgr.input_manager
             THEN Bind(LAMBDA r :
                    IF r.result # None /\ ~(ResultKeysRead \subseteq DOMAIN r.result)
                    THEN [acc EXCEPT !.prog = r.prog, !.raised = TRUE,
                                     !.enemies = @ \o SubSeq(copy, k, Len(copy))]
                    ELSE EnemyLoop(copy, k + 1,
                           [acc EXCEPT
                              !.prog = r.prog,
                              !.handled = @ + 1,
                              !.mgr.enemies_killed_this_wave = @ + 1,
                              !.mgr.total_enemies_killed = @ + 1],
                           delta_time, has_progression, d),
                    InputOnEnemyKilled(has_progression, acc.prog, e.level,
                                       e.enemy_type, d.drop_roll))
             ELSE EnemyLoop(copy, k + 1,
                    [acc EXCEPT !.handled = @ + 1,
                                !.mgr.enemies_killed_this_wave = @ + 1,
                                !.mgr.total_enemies_killed = @ + 1],
                    delta_time, has_progression, d)
        ELSE IF IsOffScreen(e, ScreenHeight)
        THEN EnemyLoop(copy, k + 1, acc, delta_time, has_progression, d)
        ELSE EnemyLoop(copy, k + 1, [acc EXCEPT !.enemies = Append(@, e)],
                       delta_time, has_progression, d),
        IF copy[k].alive
        THEN BasicEnemyUpdate(copy[k], delta_time, d.target, d.bci, d.si)
        ELSE copy[k])

\* the number of living enemies of a list
LivingEnemies(es) == Cardinality({k \in DOMAIN es : es[k].alive})

\* EnemyManager.update: spawning, the loop over the enemies and the check of
\* the completion of the wave, which an exception of the loop skips.
EnemyManagerUpdate(m, es, p, delta_time, has_progression, d) ==
    LET timer == m.spawn_timer + delta_time
        due == m.enemies_to_spawn > 0 /\ timer >= m.spawn_interval
        s == IF due THEN SpawnEnemy(m, es, d) ELSE [mgr |-> m, enemies |-> es]
        m1 == [s.mgr EXCEPT !.spawn_timer = IF m.enemies_to_spawn > 0
                                            THEN (IF due THEN 0 ELSE timer)
                                            ELSE @]
    IN Bind(LAMBDA a :
              IF a.raised THEN a
              ELSE IF /\ a.mgr.enemies_to_spawn <= 0
                      /\ LivingEnemies(a.enemies) = 0
                      /\ ~a.mgr.wave_complete
              THEN [a EXCEPT !.mgr.wave_complete = TRUE,
                             !.mgr.wave_completion_timer = delta_time]
              ELSE a,
            EnemyLoop(s.enemies, 1,
                      [mgr |-> m1, enemies |-> << >>, prog |-> p,
                       raised |-> FALSE, handled |-> 0],
                      delta_time, has_progression, d))

---------------------------------------------------------------------------
(* GameDirector: start_new_game and one frame of _update_game *)

WaveDelay == 3 * TicksPerSecond

\* GameDirector.__init__: the main menu, no run started.
NewDirector ==
    [mode |-> "menu", current_wave |-> 1, wave_completion_timer |-> 0,
     mgr |-> NewEnemyManager, prog |-> NewProgression,
     has_progression |-> FALSE, waited |-> 0]

\* GameDirector.start_new_game: fresh managers, the input manager given the
\* progression manager, the enemy manager given the input manager, wave 1.
StartedGame(g) ==
    [g EXCEPT !.mode = "playing",
              !.prog = NewProgression,
              !.has_progression = TRUE,
              !.mgr = StartWave([NewEnemyManager EXCEPT !.input_manager = TRUE], 1),
              !.waited = 0]

\* GameDirector._start_next_wave
StartNextWave(g) ==
    [g EXCEPT !.current_wave = @ + 1,
              !.wave_completion_timer = 0,
              !.mgr = StartWave(@, g.current_wave + 1)]

\* GameDirector._update_wave_progression that starts the next wave in the
\* frame of the completion, whatever time has passed.
UpdateWaveProgressionNoDelay(g, delta_time) ==
    IF g.mgr.wave_complete
    THEN LET timer == g.wave_completion_timer + delta_time
         IN StartNextWave([g EXCEPT !.wave_completion_timer = timer])
    ELSE g

\* GameDirector._update_wave_progression
UpdateWaveProgression(g, delta_time) ==
    IF g.mgr.wave_complete
    THEN LET timer == g.wave_completion_timer + delta_time
         IN IF timer >= WaveDelay
            THEN StartNextWave([g EXCEPT !.wave_completion_timer = timer])
            ELSE [g EXCEPT !.wave_completion_timer = timer]
    ELSE g

\* GameDirector.end_current_run
EndCurrentRun(g, success) ==
    [g EXCEPT !.mode = IF success THEN "menu" ELSE "game_over",
              !.current_wave = 1,
              !.wave_completion_timer = 0]

\* GameDirector._check_game_conditions
CheckGameConditions(g, s) ==
    IF g.mode = "playing" /\ ShipIsDead(s) THEN EndCurrentRun(g, FALSE) ELSE g

\* The stages of _update_game in the order in which the frame ran them.
StagesBeforeEnemies == << "input", "ship" >>
StagesAfterEnemies == << "projectiles", "cannon", "effects", "wave", "conditions" >>

\* GameDirector._update_game up to the end of EnemyManager.update: the
\* progression timers, the ship and its cannon, then the enemy manager.
FrameToEnemies(g, s, es, delta_time, d) ==
    EnemyManagerUpdate(g.mgr, es,
                       IF g.has_progression THEN ProgressionUpdate(g.prog, delta_time)
                       ELSE g.prog,
                       delta_time, g.has_progression, d)

\* the rest of _update_game after an EnemyManager.update that returned a:
\* the projectile manager on the living enemies, the wave progression and
\* the end of the run.
FrameAfterEnemies(g, a, s, bs, ss, ms, delta_time, d) ==
    Bind(LAMBDA r :
           Bind(LAMBDA g1 :
                  [game |-> CheckGameConditions(
                               UpdateWaveProgression(g1, delta_time), r.world.ship),
                   ship |-> r.world.ship, enemies |-> r.world.enemies,
                   bombs |-> r.bombs, shots |-> r.shots, beams |-> r.beams,
                   log |-> r.world.log, raised |-> FALSE,
                   mgr_after |-> a.mgr, alive_after |-> LivingEnemies(a.enemies),
                   stages |-> StagesBeforeEnemies \o << "enemies" >>
                                \o StagesAfterEnemies],
                [g EXCEPT !.mgr = a.mgr, !.prog = a.prog,
                          !.waited = IF a.mgr.wave_complete THEN @ + delta_time
                                     ELSE 0]),
         ProjectileUpdate(bs, ss, ms, a.enemies, s, delta_time, d.roll, d.angle))

\* GameDirector._update_game: an exception of EnemyManager.update leaves
\* the frame, and the program, at that point.
UpdateGameFrame(g, s, es, bs, ss, ms, delta_time, d) ==
    Bind(LAMBDA s1 :
      Bind(LAMBDA a :
             IF a.raised
             THEN [game |-> [g EXCEPT !.mode = "crashed", !.mgr = a.mgr,
                                      !.prog = a.prog],
                   ship |-> s1, enemies |-> a.enemies,
                   bombs |-> bs, shots |-> ss, beams |-> ms,
                   log |-> << >>, raised |-> TRUE,
                   mgr_after |-> a.mgr, alive_after |-> LivingEnemies(a.enemies),
                   stages |-> StagesBeforeEnemies \o << "enemies" >>]
             ELSE FrameAfterEnemies(g, a, s1, bs, ss, ms, delta_time, d),
           FrameToEnemies(g, s1, es, delta_time, d)),
      BreacherUpdate(s, delta_time, {}))

---------------------------------------------------------------------------
(* A run of the game: waves of enemies, the player's shots and the frames *)

MaxWaveFrames == 9
MaxWaveShots == 2
MaxWave == 2

InitWave ==
    /\ ship = NewShip
    /\ enemies = << >>
    /\ frame = 0
    /\ call = NoCall
    /\ bombs = << >> /\ shots = << >> /\ beams = << >>
    /\ nextId = 1 /\ hist = NoHistory
    /\ QuietWeapons
    /\ game = NewDirector

\* the return key in the main menu
StartNewGame ==
    /\ game.mode = "menu"
    /\ game' = StartedGame(game)
    /\ ship' = NewShip
    /\ enemies' = << >>
    /\ bombs' = ClearedList /\ shots' = ClearedList /\ beams' = ClearedList
    /\ call' = [op |-> "director.start_new_game"]
    /\ UNCHANGED <<cannon, missile, now, frame, nextId, hist>>

\* the frame times of a run: one second, and a stall of nineteen seconds
WaveDts == {TicksPerSecond, 19 * TicksPerSecond}

\* the random draws of one frame
WaveDraws ==
    { [position |-> 3, type |-> t, variance |-> 0, vx0 |-> 0, vy0 |-> 60,
       bci |-> 2 * TicksPerSecond, si |-> 2 * TicksPerSecond, target |-> 0,
       drop_roll |-> 10, roll |-> r, angle |-> "E"] :
           t \in EnemyTypes, r \in {5, 99} }

\* a weapon of the player hands the projectile manager a round that flies
\* along with a living enemy
WaveShot ==
    \E i \in DOMAIN enemies :
        /\ game.mode = "playing"
        /\ enemies[i].alive
        /\ nextId <= MaxWaveShots
        /\ nextId' = nextId + 1
        /\ shots' = AddKineticShot(shots, nextId, enemies[i].x, enemies[i].y,
                                   enemies[i].vx, enemies[i].vy, 500, 800, TRUE)
        /\ call' = [op |-> "pm.add", kind |-> "shot"]
        /\ UNCHANGED <<game, ship, enemies, bombs, beams, cannon, missile, now,
                       frame, hist>>

\* one frame of the playing game
UpdateGame ==
    \E dt \in WaveDts, d \in WaveDraws :
        \E r \in {UpdateGameFrame(game, ship, enemies, bombs, shots, beams, dt, d)} :
           /\ game.mode = "playing"
           /\ d.type \in SpawnTypes(game.mgr.current_wave)
           /\ frame < MaxWaveFrames
           /\ game.current_wave <= MaxWave
           /\ frame' = frame + 1
           /\ game' = r.game
           /\ ship' = r.ship
           /\ enemies' = r.enemies
           /\ bombs' = r.bombs /\ shots' = r.shots /\ beams' = r.beams
           /\ cannon' = CannonUpdate(cannon, dt)
           /\ call' = [op |-> "director.update_game", dt |-> dt,
                       raised |-> r.raised, stages |-> r.stages,
                       roll |-> d.roll, mgr_after |-> r.mgr_after,
                       alive_after |-> r.alive_after, log |-> r.log]
           /\ UNCHANGED <<missile, now, nextId, hist>>

NextWave ==
    \/ StartNewGame
    \/ WaveShot
    \/ UpdateGame

SpecWave == InitWave /\ [][NextWave]_vars

\* a step that is one frame of the playing game
IsGameFrame == call'.op = "director.update_game" /\ frame' = frame + 1

\* the dead enemies a frame finds in the list of the enemy manager
DeadInList(es) == {k \in DOMAIN es : ~es[k].alive}

\* C11: with the systems wired as start_new_game wires them, the
\* EnemyManager.update that finds a killed enemy completes its death
\* handling without an exception: the kill counters go up by the number of
\* dead enemies and the dead enemies leave the list.
DeathHandlingCompletes ==
    [][ ( /\ IsGameFrame
          /\ game.mgr.input_manager /\ game.has_progression
          /\ DeadInList(enemies) # {} ) =>
        /\ ~call'.raised
        /\ call'.mgr_after.total_enemies_killed
             = game.mgr.total_enemies_killed + Cardinality(DeadInList(enemies))
        /\ DeadInList(enemies') = {} ]_vars

StageIndex(stages, name) ==
    IF \E k \in DOMAIN stages : stages[k] = name
    THEN CHOOSE k \in DOMAIN stages : stages[k] = name
    ELSE 0

\* C20: every playing frame runs the ship physics, then
\* ProjectileManager.update, then EnemyManager.update, then the wave
\* bookkeeping; the projectile update never runs after the enemy update of
\* the frame.
ProjectilesBeforeEnemies ==
    [][ (IsGameFrame /\ ~call'.raised) =>
        /\ StageIndex(call'.stages, "ship") < StageIndex(call'.stages, "projectiles")
        /\ StageIndex(call'.stages, "projectiles")
             < StageIndex(call'.stages, "enemies")
        /\ StageIndex(call'.stages, "enemies") < StageIndex(call'.stages, "wave")
      ]_vars

---------------------------------------------------------------------------
(* The armed-enemy factories of enemy_weapons.py *)

\* speed * (base_size / 13) on the default 1920 x 1080 screen of
\* BasicEnemy.__init__: base_size = 6.48
DefaultSpeedScale(v) == IntDiv(v * 648, 1300)

\* int(_calculate_realistic_hp(type, level) * hp_scale) with
\* hp_scale = (6.48 / 13)^1.5 = 0.35192
DefaultEnemyMaxHp(type, level) ==
    LET base == CASE type = "bomber" -> 4000 [] type = "scout" -> 800 [] OTHER -> 1500
    IN IntDiv(((base * (10 + (level - 1) * 8)) \div 10) * 35192, 100000)

\* BasicEnemy(x, y, type, level) with the default screen size
DefaultEnemy(type, level, x, y, vx0, vy0, bci, si) ==
    LET base == CASE type = "bomber" -> 16 [] type = "scout" -> 8 [] OTHER -> 12
    IN [NewEnemy(type, level, x, y, 0, 0, bci, si) EXCEPT
          !.vx = DefaultSpeedScale(vx0), !.vy = DefaultSpeedScale(vy0),
          !.target_vx = DefaultSpeedScale(vx0),
          !.max_hp = DefaultEnemyMaxHp(type, level),
          !.current_hp = DefaultEnemyMaxHp(type, level),
          !.radius = Max(4, DefaultSpeedScale(base + level * 2))]

\* __init_weapons__ of add_weapons_to_basic_enemy: the original __init__,
\* then the shooting interval by type.
InitWeapons(type, level, x, y, vx0, vy0, bci, si) ==
    [DefaultEnemy(type, level, x, y, vx0, vy0, bci, si) EXCEPT
       !.shoot_interval = CASE type = "bomber" -> IntDiv(@ * 15, 10)
                            [] type = "scout" -> IntDiv(@ * 7, 10)
                            [] OTHER -> @]

\* create_armed_fighter, create_armed_bomber and create_armed_scout on a
\* class that add_weapons_to_basic_enemy has not wrapped before: the enemy
\* initialised again with weapons, then max_hp scaled by 1.3 or 0.7.
CreateArmedEnemy(type, level, x, y, vx0, vy0, bci, si) ==
    [InitWeapons(type, level, x, y, vx0, vy0, bci, si) EXCEPT
       !.max_hp = CASE type = "bomber" -> IntDiv(@ * 13, 10)
                    [] type = "scout" -> IntDiv(@ * 7, 10)
                    [] OTHER -> @]

---------------------------------------------------------------------------
(* The hull and shield pools of the ship and of the armed enemies *)

\* patched: add_weapons_to_basic_enemy has replaced BasicEnemy.__init__
InitPools ==
    /\ ship = NewShip
    /\ enemies = << >>
    /\ frame = 0
    /\ call = NoCall
    /\ bombs = << >> /\ shots = << >> /\ beams = << >>
    /\ nextId = 1 /\ hist = NoHistory
    /\ QuietWeapons
    /\ game = [mode |-> "pools", patched |-> FALSE]

\* A factory is called. The second call of add_weapons_to_basic_enemy stores
\* the wrapper as __original_init__, so from then on the wrapper calls
\* itself and the factory ends in a RecursionError without an enemy.
CreateArmed ==
    \E type \in EnemyTypes, level \in {1} :
        /\ IF game.patched
           THEN /\ enemies' = enemies
                /\ call' = [op |-> "create_armed", type |-> type, raised |-> TRUE]
           ELSE /\ enemies' = Append(enemies,
                       CreateArmedEnemy(type, level, 1000, 100, 0, 20,
                                        2 * TicksPerSecond, 2 * TicksPerSecond))
                /\ call' = [op |-> "create_armed", type |-> type, raised |-> FALSE]
        /\ game' = [game EXCEPT !.patched = TRUE]
        /\ UNCHANGED <<ship, bombs, shots, beams, cannon, missile, now, frame,
                       nextId, hist>>

\* modifier bundles inside the documented ranges
PoolModifiers ==
    { [dodge_chance |-> 50, damage_resistance |-> 75,
       shield_capacity_bonus |-> 0, shield_regen_bonus |-> 0],
      [dodge_chance |-> 0, damage_resistance |-> 50,
       shield_capacity_bonus |-> 500, shield_regen_bonus |-> 20] }

\* the progression layer pushes modifiers into the ship
ApplyPoolModifiers ==
    \E m \in PoolModifiers :
        /\ ship' = ApplyStatModifiersTo(ship, m)
        /\ call' = [op |-> "ship.apply_stat_modifiers"]
        /\ UNCHANGED <<game, enemies, bombs, shots, beams, cannon, missile, now,
                       frame, nextId, hist>>

\* a hit on the ship that the shield cannot absorb
PoolShipHit == ShipTakeDamageFrom({20000})

\* one frame of the ship with no key held
PoolShipUpdate == ShipUpdateWith({{}})

NextPools ==
    \/ CreateArmed
    \/ ApplyPoolModifiers
    \/ PoolShipHit
    \/ PoolShipUpdate
    \/ EnemyHit
    \/ EnemyFrame

SpecPools == InitPools /\ [][NextPools]_vars

\* C12: in every reachable state the hull and the shield of the ship and the
\* hull of every enemy, the enemies of the armed factories included, lie
\* between 0 and their maximum.
PoolsWithinBounds ==
    /\ 0 <= ship.current_hp /\ ship.current_hp <= ship.max_hp
    /\ 0 <= ship.current_shield /\ ship.current_shield <= ship.max_shield
    /\ \A k \in DOMAIN enemies :
          0 <= enemies[k].current_hp /\ enemies[k].current_hp <= enemies[k].max_hp

---------------------------------------------------------------------------
(* The value returned by take_damage *)

\* C14: take_damage returns true exactly when the hull of the entity is 0
\* when the call returns, for the ship and for the enemy.
TakeDamageReturnsDeath ==
    [][ /\ call'.op = "ship.take_damage" =>
             (call'.killed <=> ship'.current_hp = 0)
        /\ call'.op = "enemy.take_damage" =>
             \A k \in DOMAIN enemies' :
                (call'.killed <=> enemies'[k].current_hp = 0) ]_vars

---------------------------------------------------------------------------
(* The two progression implementations: ProgressionManager with PlayerStats
   (player_progression_system.py) and ProgressionIntegrator
   (rpg_bomb_system.py). Resistance and dodge are kept in percent. *)

\* PlayerStats._calculate_derived_stats
CalculateDerivedStats(p) ==
    [p EXCEPT !.explosive_bonus_kg = p.attack - 1,
              !.damage_resistance = Min(75, (p.defense - 1) * 5),
              !.dodge_chance = Min(50, (p.evasion - 1) * 3),
              !.shield_capacity_bonus = (p.shield - 1) * 500,
              !.shield_regen_bonus = (p.shield - 1) * 10]

\* PlayerStats.__init__ with the notification state of ProgressionManager
NewPlayerStats ==
    CalculateDerivedStats(
        [player_level |-> 1, experience |-> 0, stat_points |-> 0,
         attack |-> 1, defense |-> 1, evasion |-> 1, shield |-> 1,
         explosive_bonus_kg |-> 0, damage_resistance |-> 0, dodge_chance |-> 0,
         shield_capacity_bonus |-> 0, shield_regen_bonus |-> 0,
         show_level_up |-> FALSE, level_up_timer |-> 0,
         show_stat_allocation |-> FALSE])

\* PlayerStats.get_exp_requirement
ExpRequirement(level) == 100 + (level - 1) * 50

\* the loop of PlayerStats.add_experience with level_up
RECURSIVE LevelUps(_)
LevelUps(p) ==
    IF p.experience >= ExpRequirement(p.player_level)
    THEN LevelUps([p EXCEPT !.experience = @ - ExpRequirement(p.player_level),
                            !.player_level = @ + 1,
                            !.stat_points = @ + 1])
    ELSE p

\* ProgressionManager.on_enemy_killed (the drop goes to the inventory)
ManagerOnEnemyKilled(p, enemy_level, enemy_type) ==
    LET total_exp == 10 + enemy_level * 2
                       + (CASE enemy_type = "bomber" -> 5
                            [] enemy_type = "scout" -> 3 [] OTHER -> 0)
        q == LevelUps([p EXCEPT !.experience = @ + total_exp])
        leveled_up == q.player_level > p.player_level
    IN [q EXCEPT !.show_level_up = IF leveled_up THEN TRUE ELSE @,
                 !.level_up_timer = IF leveled_up THEN 3 * TicksPerSecond ELSE @]

\* PlayerStats.allocate_stat_point
StatsAllocateStatPoint(p, stat_name) ==
    IF p.stat_points <= 0 \/ stat_name \notin {"attack", "defense", "evasion", "shield"}
    THEN p
    ELSE CalculateDerivedStats(
             [p EXCEPT !.attack = IF stat_name = "attack" THEN @ + 1 ELSE @,
                       !.defense = IF stat_name = "defense" THEN @ + 1 ELSE @,
                       !.evasion = IF stat_name = "evasion" THEN @ + 1 ELSE @,
                       !.shield = IF stat_name = "shield" THEN @ + 1 ELSE @,
                       !.stat_points = @ - 1])

\* ProgressionManager.get_weapon_modifiers with no perk bought
ManagerWeaponModifiers(p) ==
    [explosive_bonus_kg |-> p.explosive_bonus_kg,
     damage_resistance |-> p.damage_resistance,
     dodge_chance |-> p.dodge_chance,
     shield_capacity_bonus |-> p.shield_capacity_bonus,
     shield_regen_bonus |-> p.shield_regen_bonus]

\* ProgressionIntegrator.__init__ of rpg_bomb_system.py
NewRpgProgression ==
    [player_level |-> 1, experience |-> 0, stat_points |-> 0,
     attack |-> 1, defense |-> 1, evasion |-> 1, shield |-> 1,
     show_level_up |-> FALSE, level_up_timer |-> 0,
     show_stat_allocation |-> FALSE]

\* ProgressionIntegrator.on_enemy_killed of rpg_bomb_system.py (the drops go
\* to the inventory)
RpgOnEnemyKilled(p, enemy_type, enemy_level) ==
    LET experience == p.experience + 10 + enemy_level * 3
        exp_needed == 100 + (p.player_level - 1) * 50
        leveled_up == experience >= exp_needed
    IN [p EXCEPT
          !.experience = IF leveled_up THEN experience - exp_needed ELSE experience,
          !.player_level = IF leveled_up THEN @ + 1 ELSE @,
          !.stat_points = IF leveled_up THEN @ + 1 ELSE @,
          !.show_level_up = IF leveled_up THEN TRUE ELSE @,
          !.level_up_timer = IF leveled_up THEN 3 * TicksPerSecond ELSE @]

\* ProgressionIntegrator.allocate_stat_point of rpg_bomb_system.py
RpgAllocateStatPoint(p, stat_name) ==
    IF p.stat_points <= 0 \/ stat_name \notin {"attack", "defense", "evasion", "shield"}
    THEN p
    ELSE [p EXCEPT !.attack = IF stat_name = "attack" THEN @ + 1 ELSE @,
                   !.defense = IF stat_name = "defense" THEN @ + 1 ELSE @,
                   !.evasion = IF stat_name = "evasion" THEN @ + 1 ELSE @,
                   !.shield = IF stat_name = "shield" THEN @ + 1 ELSE @,
                   !.stat_points = @ - 1]

\* ProgressionIntegrator.get_weapon_modifiers of rpg_bomb_system.py with
\* nothing crafted
RpgWeaponModifiers(p) ==
    [bomb_level |-> Min(13, p.attack),
     cooldown_reduction |-> 0, hit_chance_bonus |-> 0, penetration |-> 0,
     damage_resistance |-> (p.defense - 1) * 5,
     dodge_chance |-> (p.evasion - 1) * 3,
     shield_capacity_bonus |-> (p.shield - 1) * 500,
     shield_regen_bonus |-> (p.shield - 1) * 10]

\* the operations of the progression object an input manager holds
OnEnemyKilled(impl, p, enemy_level, enemy_type) ==
    IF impl = "manager" THEN ManagerOnEnemyKilled(p, enemy_level, enemy_type)
    ELSE RpgOnEnemyKilled(p, enemy_type, enemy_level)

AllocateStat(impl, p, stat_name) ==
    IF impl = "manager" THEN StatsAllocateStatPoint(p, stat_name)
    ELSE RpgAllocateStatPoint(p, stat_name)

GetWeaponModifiers(impl, p) ==
    IF impl = "manager" THEN ManagerWeaponModifiers(p) ELSE RpgWeaponModifiers(p)

\* InputManager._fire_special_weapon of engine/input_manager.py: the
\* modifiers of the progression manager are pushed into the ship, then the
\* ability is fired.
InputFireSpecialWeapon(impl, p, s, ability_name, list, id, group_id) ==
    IF ability_name \notin Abilities
    THEN [ship |-> s, bombs |-> list, ok |-> FALSE]
    ELSE FireSpecialWeapon(ApplyStatModifiersTo(s, GetWeaponModifiers(impl, p)),
                           ability_name, list, id, group_id)

---------------------------------------------------------------------------
(* Kills, level-ups and allocations on either progression implementation *)

MaxPlayerLevel == 18
MaxAllocLevel == 3

Implementations == {"manager", "rpg"}

InitProgress ==
    /\ ship = NewShip
    /\ enemies = << >>
    /\ frame = 0
    /\ call = NoCall
    /\ bombs = << >> /\ shots = << >> /\ beams = << >>
    /\ nextId = 1 /\ hist = NoHistory
    /\ QuietWeapons
    /\ \E impl \in Implementations :
          game = [mode |-> "progress", impl |-> impl,
                  p |-> IF impl = "manager" THEN NewPlayerStats
                        ELSE NewRpgProgression]

\* an enemy of a late wave is killed
KillUpTo(max_level) ==
    \E enemy_level \in {30}, enemy_type \in {"fighter"} :
        /\ game.p.player_level < max_level
        /\ game' = [game EXCEPT !.p = OnEnemyKilled(game.impl, @, enemy_level,
                                                     enemy_type)]
        /\ call' = [op |-> "progress.kill"]
        /\ UNCHANGED <<ship, enemies, bombs, shots, beams, cannon, missile, now,
                       frame, nextId, hist>>

\* a key of the stat allocation screen
AllocateOf(stats) ==
    \E stat_name \in stats :
        /\ game.p.stat_points > 0
        /\ game' = [game EXCEPT !.p = AllocateStat(game.impl, @, stat_name)]
        /\ call' = [op |-> "progress.allocate", stat |-> stat_name]
        /\ UNCHANGED <<ship, enemies, bombs, shots, beams, cannon, missile, now,
                       frame, nextId, hist>>

ProgressKill == KillUpTo(MaxPlayerLevel)
ProgressAllocate == AllocateOf({"defense", "evasion"})

NextProgress ==
    \/ ProgressKill
    \/ ProgressAllocate

SpecProgress == InitProgress /\ [][NextProgress]_vars

\* C15: after any sequence of kills, level-ups and allocations the bundle of
\* get_weapon_modifiers has damage_resistance within [0, 0.75] and
\* dodge_chance within [0, 0.50], for either implementation.
ModifiersWithinRanges ==
    LET m == GetWeaponModifiers(game.impl, game.p)
    IN /\ 0 <= m.damage_resistance /\ m.damage_resistance <= 75
       /\ 0 <= m.dodge_chance /\ m.dodge_chance <= 50

---------------------------------------------------------------------------
(* The engine's input manager between the progression system and the ship *)

\* ProgressionManager.update, and the same steps of
\* ProgressionIntegrator.update
ProgressUpdate(p, delta_time) ==
    IF p.level_up_timer > 0
    THEN LET t == p.level_up_timer - delta_time
         IN [p EXCEPT !.level_up_timer = t,
                      !.show_level_up = IF t <= 0 THEN FALSE ELSE @,
                      !.show_stat_allocation =
                          IF t <= 0 /\ p.stat_points > 0 THEN TRUE ELSE @]
    ELSE p

\* handle_input of the progression system for the keys C, 1, 2, 3 and 4: the
\* progression after the key, and whether the key was consumed.
ProgressHandleInput(impl, p, key) ==
    IF key = "c" /\ p.stat_points > 0
    THEN [p |-> [p EXCEPT !.show_stat_allocation = ~@], handled |-> TRUE]
    ELSE IF p.show_stat_allocation /\ key \in {"1", "2", "3", "4"}
    THEN LET stat_name == CASE key = "1" -> "attack" [] key = "2" -> "defense"
                            [] key = "3" -> "evasion" [] OTHER -> "shield"
         IN [p |-> AllocateStat(impl, p, stat_name),
             handled |-> p.stat_points > 0]
    ELSE [p |-> p, handled |-> FALSE]

\* the ability a key is bound to in InputManager.key_bindings
KeyAbility(key) == IF key = "z" THEN "overcharge_warheads" ELSE "none"

\* InputManager._handle_key_down of engine/input_manager.py
InputHandleKeyDown(impl, p, s, key, list, id, group_id) ==
    LET h == ProgressHandleInput(impl, p, key)
    IN IF h.handled THEN [p |-> h.p, ship |-> s, bombs |-> list]
       ELSE LET r == InputFireSpecialWeapon(impl, h.p, s, KeyAbility(key), list,
                                            id, group_id)
            IN [p |-> h.p, ship |-> r.ship, bombs |-> r.bombs]

AllocKeys == {"c", "2", "3", "z"}

\* a key press
AllocKey ==
    \E key \in AllocKeys :
        \E r \in {InputHandleKeyDown(game.impl, game.p, ship, key, bombs, nextId,
                                     1000)} :
            /\ game' = [game EXCEPT !.p = r.p]
            /\ ship' = r.ship
            /\ bombs' = r.bombs
            /\ call' = [op |-> "input.key_down", key |-> key,
                        allocated |-> r.p.stat_points < game.p.stat_points]
            /\ UNCHANGED <<enemies, shots, beams, cannon, missile, now, frame,
                           nextId, hist>>

\* one frame: InputManager.update, then the update of the ship
AllocFrame ==
    \E dt \in ShipDts :
        /\ game' = [game EXCEPT !.p = ProgressUpdate(@, dt)]
        /\ ship' = BreacherUpdate(ship, dt, {})
        /\ call' = [op |-> "frame"]
        /\ UNCHANGED <<enemies, bombs, shots, beams, cannon, missile, now, frame,
                       nextId, hist>>

AllocKill == KillUpTo(MaxAllocLevel)

NextAlloc ==
    \/ AllocKill
    \/ AllocKey
    \/ AllocFrame

SpecAlloc == InitProgress /\ [][NextAlloc]_vars

\* C16: at every frame boundary the ship's stat_modifiers carry the damage
\* resistance, dodge chance and shield bonuses of the progression system, so
\* an allocation has reached the ship by the end of the next frame with no
\* further key pressed.
AllocationReachesShip ==
    [][call'.op = "frame"
       => LET m == GetWeaponModifiers(game'.impl, game'.p)
          IN \A k \in {"damage_resistance", "dodge_chance",
                       "shield_capacity_bonus", "shield_regen_bonus"} :
                ship'.stat_modifiers[k] = m[k]]_vars

---------------------------------------------------------------------------
(* Overcharged warheads at detonation *)

\* the distances (px) from the explosion centre at which the delivered joules
\* are compared
BlastDistances == {0, 10, 50, 200}

\* the joules calculate_explosion_damage delivers from bomb b, as
\* _detonate_bomb calls it, to a target d px from the centre
DeliveredAt(b, d) == ExplosionDamage(<<b.x, b.y>>, <<b.x + d, b.y>>, b.warhead_data)

\* C17: every bomb of a volley fired while overcharge is active delivers, at
\* each distance, 1.5 times the joules of the bomb the same call launches
\* from the same ship with overcharge inactive.
OverchargeMultipliesDamage ==
    [][/\ call'.op = "ship.fire_special_weapon"
       /\ call'.ability \in {"breach_bomb", "cluster_strike"}
       /\ call'.ok
       /\ ship.overcharge_active
       => LET plain == FireSpecialWeapon([ship EXCEPT !.overcharge_active = FALSE],
                                         call'.ability, bombs, nextId, 1000).bombs
          IN \A k \in (Len(bombs) + 1)..Len(bombs') : \A d \in BlastDistances :
                2 * DeliveredAt(bombs'[k], d) = 3 * DeliveredAt(plain[k], d)]_vars

---------------------------------------------------------------------------
(* Cooldowns of the bomb abilities under the cooldown modifier *)

MaxCooldownIds == 25
CooldownHorizon == 200

TimedAbilities == {"breach_bomb", "cluster_strike"}

\* base_cooldown of _fire_breach_bomb and _fire_cluster_strike, in ticks
BaseInterval(ability) ==
    IF ability = "breach_bomb" THEN 4 * TicksPerSecond ELSE 3 * TicksPerSecond

\* since[a] is the dt accumulated by the frames after the last successful
\* fire of a (-1 before the first one), mult[a] the cooldown modifier the
\* ship had at that fire.
InitCooldown ==
    /\ ship = NewShip
    /\ enemies = << >>
    /\ frame = 0
    /\ call = NoCall
    /\ bombs = << >> /\ shots = << >> /\ beams = << >>
    /\ nextId = 1 /\ hist = NoHistory
    /\ QuietWeapons
    /\ game = [mode |-> "cooldown", since |-> [a \in TimedAbilities |-> -1],
               mult |-> [a \in TimedAbilities |-> 100]]

\* the modifier without a perk and with rapid_reload
CooldownMults == {75, 100}

\* the progression layer pushes the cooldown modifier into the ship
CooldownModifiers ==
    \E m \in CooldownMults :
        /\ ship.stat_modifiers.cooldown_mult # m
        /\ ship' = ApplyStatModifiersTo(ship, [cooldown_mult |-> m])
        /\ call' = [op |-> "ship.apply_stat_modifiers"]
        /\ UNCHANGED <<game, enemies, bombs, shots, beams, cannon, missile, now,
                       frame, nextId, hist>>

\* a key press that reaches BreacherShip.fire_special_weapon
CooldownFire ==
    \E a \in TimedAbilities :
        \E r \in {FireSpecialWeapon(ship, a, bombs, nextId, 1000)} :
            /\ nextId + (Len(r.bombs) - Len(bombs)) <= MaxCooldownIds
            /\ ship' = r.ship
            /\ bombs' = r.bombs
            /\ nextId' = nextId + (Len(r.bombs) - Len(bombs))
            /\ game' = IF r.ok
                       THEN [game EXCEPT !.since[a] = 0,
                                         !.mult[a] = ship.stat_modifiers.cooldown_mult]
                       ELSE game
            /\ call' = [op |-> "ship.fire_special_weapon", ability |-> a,
                        ok |-> r.ok, since |-> game.since[a],
                        mult |-> game.mult[a]]
            /\ UNCHANGED <<enemies, shots, beams, cannon, missile, now, frame, hist>>

\* one frame of the ship, half a second long
CooldownFrame ==
    \E dt \in {TicksPerSecond \div 2} :
        /\ ship' = BreacherUpdate(ship, dt, {})
        /\ game' = [game EXCEPT !.since =
                       [a \in TimedAbilities |->
                          IF game.since[a] < 0 THEN -1
                          ELSE Min(CooldownHorizon, game.since[a] + dt)]]
        /\ call' = [op |-> "ship.update"]
        /\ UNCHANGED <<enemies, bombs, shots, beams, cannon, missile, now, frame,
                       nextId, hist>>

NextCooldown ==
    \/ CooldownModifiers
    \/ CooldownFire
    \/ CooldownFrame

SpecCooldown == InitCooldown /\ [][NextCooldown]_vars

\* C18 as stated: an attempt after an earlier successful fire of the ability
\* under modifier m succeeds exactly when the dt accumulated since that fire
\* is at least I / m.
CooldownDividedByModifier ==
    [][call'.op = "ship.fire_special_weapon" /\ call'.since >= 0
       => (call'.ok <=> call'.since * call'.mult >= BaseInterval(call'.ability) * 100)
      ]_vars

\* C18: an attempt after an earlier successful fire of the ability under
\* modifier m is rejected while the dt accumulated since that fire is below
\* I * m and succeeds once it is at least I * m.
CooldownTimesModifier ==
    [][call'.op = "ship.fire_special_weapon" /\ call'.since >= 0
       => (call'.ok <=> call'.since * 100 >= BaseInterval(call'.ability) * call'.mult)
      ]_vars

\* a breach bomb fired under rapid_reload is fired again exactly 3 s later
RefiredAfterScaledCooldown ==
    /\ call.op = "ship.fire_special_weapon"
    /\ call.ability = "breach_bomb"
    /\ call.ok
    /\ call.mult = 75
    /\ call.since = 3 * TicksPerSecond

---------------------------------------------------------------------------
(* Shield regeneration between hits *)

RegenHorizon == 200

\* since_hit is the dt accumulated by the frames after the last take_damage
\* call that was not evaded (after construction while there was none); hit
\* tells whether there was one.
InitRegen ==
    /\ ship = NewShip
    /\ enemies = << >>
    /\ frame = 0
    /\ call = NoCall
    /\ bombs = << >> /\ shots = << >> /\ beams = << >>
    /\ nextId = 1 /\ hist = NoHistory
    /\ QuietWeapons
    /\ game = [mode |-> "regen", since_hit |-> 0, hit |-> FALSE]

RegenDamages == {30, 60}

RegenModifiers ==
    { [dodge_chance |-> 0, damage_resistance |-> 0,
       shield_capacity_bonus |-> 0, shield_regen_bonus |-> 0],
      [dodge_chance |-> 50, damage_resistance |-> 50,
       shield_capacity_bonus |-> 0, shield_regen_bonus |-> 20] }

\* the progression layer pushes modifiers into the ship
RegenApplyModifiers ==
    \E m \in RegenModifiers :
        /\ ship' = ApplyStatModifiersTo(ship, m)
        /\ ship' # ship
        /\ call' = [op |-> "ship.apply_stat_modifiers"]
        /\ UNCHANGED <<game, enemies, bombs, shots, beams, cannon, missile, now,
                       frame, nextId, hist>>

\* a caller applies damage the shield can absorb to the player ship
RegenHit ==
    \E d \in RegenDamages, roll \in Rolls, angle \in {"N"} :
        \E r \in {BreacherTakeDamage(ship, d, roll, angle)} :
            /\ d <= ship.current_shield
            /\ ship' = r.ship
            /\ game' = IF r.evaded THEN game
                       ELSE [game EXCEPT !.since_hit = 0, !.hit = TRUE]
            /\ call' = [op |-> "ship.take_damage", damage |-> d,
                        evaded |-> r.evaded, killed |-> r.killed]
            /\ UNCHANGED <<enemies, bombs, shots, beams, cannon, missile, now,
                           frame, nextId, hist>>

RegenDts == {TicksPerSecond, 2 * TicksPerSecond}

\* one frame of the ship
RegenFrame ==
    \E dt \in RegenDts :
        /\ ship' = BreacherUpdate(ship, dt, {})
        /\ game' = [game EXCEPT !.since_hit = Min(RegenHorizon, @ + dt)]
        /\ call' = [op |-> "ship.update",
                    regen |-> ship'.current_shield - ship.current_shield]
        /\ UNCHANGED <<enemies, bombs, shots, beams, cannon, missile, now, frame,
                       nextId, hist>>

NextRegen ==
    \/ RegenApplyModifiers
    \/ RegenHit
    \/ RegenFrame

SpecRegen == InitRegen /\ [][NextRegen]_vars

\* C19: the shield grows in a frame only if at least 3 s of dt have
\* accumulated since the last take_damage call that was not evaded, the frame
\* included, and then not beyond max_shield; every take_damage call that is
\* not evaded leaves the regeneration timer at 0.
ShieldRegenerationDelay ==
    [][/\ call'.op = "ship.update" /\ ship'.current_shield > ship.current_shield
          => /\ game'.since_hit >= ShieldRegenDelay
             /\ ship'.current_shield <= ship'.max_shield
       /\ call'.op = "ship.take_damage" /\ ~call'.evaded
          => ship'.shield_regen_timer = 0]_vars

\* the shield grows in the frame that completes 3 s after a hit
RegeneratedThreeSecondsAfterHit ==
    /\ call.op = "ship.update"
    /\ call.regen > 0
    /\ game.hit
    /\ game.since_hit = ShieldRegenDelay

---------------------------------------------------------------------------
(* Two runs of the cannon fed the same frames, the same fire requests and the
   same random draws, under different wall clocks *)

MaxReplayNow == 24
MaxReplayShots == 6

\* The second run lives in game: its cannon, its shot list and the value of
\* pygame.time.get_ticks() in its process.
InitReplay ==
    /\ ship = NewShip
    /\ enemies = << >>
    /\ frame = 0
    /\ call = NoCall
    /\ bombs = << >> /\ shots = << >> /\ beams = << >>
    /\ nextId = 1 /\ hist = NoHistory
    /\ QuietWeapons
    /\ game = [mode |-> "replay", cannon |-> NewCannon, shots |-> << >>,
               now |-> 0]

\* the wall-clock time (ticks) a frame takes in a run
WallTimes == {2, 5, 8}

\* one frame of both runs: the same delta_time is handed to
\* UniversalCannon.update, the wall clock of each run advances on its own
ReplayFrame ==
    \E dt \in {5}, wall \in WallTimes, other_wall \in WallTimes :
        /\ now + wall <= MaxReplayNow
        /\ game.now + other_wall <= MaxReplayNow
        /\ cannon' = CannonUpdate(cannon, dt)
        /\ now' = now + wall
        /\ game' = [game EXCEPT !.cannon = CannonUpdate(@, dt),
                                !.now = @ + other_wall]
        /\ call' = [op |-> "replay.frame", dt |-> dt]
        /\ UNCHANGED <<ship, enemies, bombs, shots, beams, missile, frame, nextId,
                       hist>>

\* the same fire request reaches fire_universal_cannon in both runs, with the
\* same spread draws; each run reads its own clock
ReplayFire ==
    \E draws \in [1..BarrelCount -> {"none"}] :
        \E r \in {CannonFire(cannon, shots, nextId, ship, now, draws)},
           o \in {CannonFire(game.cannon, game.shots, Len(game.shots) + 1, ship,
                             game.now, draws)} :
            /\ Len(shots) + BarrelCount <= MaxReplayShots
            /\ Len(game.shots) + BarrelCount <= MaxReplayShots
            /\ cannon' = r.cannon
            /\ shots' = r.shots
            /\ nextId' = nextId + r.made
            /\ game' = [game EXCEPT !.cannon = o.cannon, !.shots = o.shots]
            /\ call' = [op |-> "replay.fire", ok |-> r.ok, other_ok |-> o.ok]
            /\ UNCHANGED <<ship, enemies, bombs, beams, missile, now, frame, hist>>

NextReplay ==
    \/ ReplayFrame
    \/ ReplayFire

SpecReplay == InitReplay /\ [][NextReplay]_vars

\* C21: two runs fed the same delta-time sequence, the same fire requests and
\* the same random draws take the same accept/reject decision at every fire
\* request and hold the same shots and the same heat, whatever their wall
\* clocks.
ReplaySameDecisions ==
    call.op = "replay.fire" =>
        /\ call.ok = call.other_ok
        /\ shots = game.shots
        /\ cannon.heat_buildup = game.cannon.heat_buildup

---------------------------------------------------------------------------
(* Spawning projectiles from specifications that may be malformed *)

\* the fields add_kinetic_shot, add_bomb and add_energy_beam read without a
\* default
ShotKeys == {"mass_g", "speed_ms"}
BombKeys == {"mass_g", "shrapnel_g", "velocity_kmh"}
BeamKeys == {"power_kw", "duration_ms"}

\* ProjectileManager.add_kinetic_shot on any projectile_data: a missing field
\* raises KeyError in calculate_projectile_damage, before the append.
SpawnKineticShot(list, id, x, y, vx, vy, projectile_data, is_player_shot) ==
    IF ~(ShotKeys \subseteq DOMAIN projectile_data)
    THEN [list |-> list, raised |-> TRUE]
    ELSE [list |-> AddKineticShot(list, id, x, y, vx, vy, projectile_data.mass_g,
                                  projectile_data.speed_ms, is_player_shot),
          raised |-> FALSE]

\* ProjectileManager.add_bomb on any bomb_stats: a missing field raises
\* KeyError and a mass of 0 ZeroDivisionError in create_warhead_data_from_db,
\* before the append.
SpawnBomb(list, id, x, y, vx, vy, bomb_stats, group_id) ==
    IF ~(BombKeys \subseteq DOMAIN bomb_stats)
    THEN [list |-> list, raised |-> TRUE]
    ELSE IF bomb_stats.mass_g = 0 THEN [list |-> list, raised |-> TRUE]
    ELSE [list |-> AddBomb(list, id, x, y, vx, vy, bomb_stats, group_id),
          raised |-> FALSE]

\* ProjectileManager.add_energy_beam on any weapon_data: a missing field
\* raises KeyError in calculate_energy_weapon_damage, before the append.
SpawnEnergyBeam(list, id, x, y, target_x, target_y, weapon_data, duration) ==
    IF ~(BeamKeys \subseteq DOMAIN weapon_data)
    THEN [list |-> list, raised |-> TRUE]
    ELSE [list |-> AddEnergyBeam(list, id, x, y, target_x, target_y, weapon_data,
                                 duration),
          raised |-> FALSE]

\* a specification with a required field missing or negative
Malformed(data, keys) ==
    \/ ~(keys \subseteq DOMAIN data)
    \/ \E k \in keys \cap DOMAIN data : data[k] < 0

MaxSpawned == 3

InitSpawn ==
    /\ ship = NewShip
    /\ enemies = << >>
    /\ frame = 0
    /\ call = NoCall
    /\ bombs = << >> /\ shots = << >> /\ beams = << >>
    /\ nextId = 1 /\ hist = NoHistory
    /\ QuietWeapons
    /\ game = [mode |-> "spawn"]

ShotSpecs ==
    { [mass_g |-> 500, speed_ms |-> 800],
      [mass_g |-> -500, speed_ms |-> 800],
      [speed_ms |-> 800] }

BombSpecs ==
    { StandardBombStats,
      [StandardBombStats EXCEPT !.velocity_kmh = -792],
      [StandardBombStats EXCEPT !.mass_g = 0],
      [name |-> "standard_1", min_damage |-> 1, max_damage |-> 3,
       velocity_kmh |-> 792, diameter_mm |-> 75, length_mm |-> 300,
       shrapnel_g |-> 5000] }

BeamSpecs ==
    { [power_kw |-> 10, duration_ms |-> 100, beam_type |-> "direct"],
      [power_kw |-> -10, duration_ms |-> 100, beam_type |-> "direct"],
      [duration_ms |-> 100, beam_type |-> "direct"] }

Spawned(op, data, keys, r, old) ==
    /\ Len(bombs) + Len(shots) + Len(beams) < MaxSpawned
    /\ nextId' = nextId + (Len(r.list) - Len(old))
    /\ call' = [op |-> op, malformed |-> Malformed(data, keys),
                raised |-> r.raised]
    /\ UNCHANGED <<game, ship, enemies, cannon, missile, now, frame, hist>>

SpawnShot ==
    \E data \in ShotSpecs, is_player_shot \in BOOLEAN :
        \E r \in {SpawnKineticShot(shots, nextId, 900, 500, 0, -800, data,
                                   is_player_shot)} :
            /\ Spawned("add_kinetic_shot", data, ShotKeys, r, shots)
            /\ shots' = r.list
            /\ UNCHANGED <<bombs, beams>>

SpawnBombs ==
    \E data \in BombSpecs :
        \E r \in {SpawnBomb(bombs, nextId, 900, 500, 0, -220, data, 1000)} :
            /\ Spawned("add_bomb", data, BombKeys, r, bombs)
            /\ bombs' = r.list
            /\ UNCHANGED <<shots, beams>>

SpawnBeam ==
    \E data \in BeamSpecs :
        \E r \in {SpawnEnergyBeam(beams, nextId, 900, 501, 1100, 501, data, 12)} :
            /\ Spawned("add_energy_beam", data, BeamKeys, r, beams)
            /\ beams' = r.list
            /\ UNCHANGED <<bombs, shots>>

NextSpawn ==
    \/ SpawnShot
    \/ SpawnBombs
    \/ SpawnBeam

SpecSpawn == InitSpawn /\ [][NextSpawn]_vars

\* C22: a spawn call whose specification has a required physical field
\* missing or negative fails, and no projectile is appended to any list.
SpawnRejectsMalformed ==
    [][call'.op \in {"add_kinetic_shot", "add_bomb", "add_energy_beam"}
         /\ call'.malformed
       => /\ call'.raised
          /\ bombs' = bombs /\ shots' = shots /\ beams' = beams]_vars

---------------------------------------------------------------------------
(* Enemy fire during a wave *)

\* the shortest firing_range of EnemyWeaponSystem (scout)
ShortestFiringRange == 300

\* the living enemies whose shooting timer reaches its interval in a frame of
\* delta_time while the player is within firing range
DueToShoot(es, s, delta_time) ==
    {k \in DOMAIN es :
        /\ es[k].alive
        /\ es[k].shoot_timer + delta_time >= es[k].shoot_interval
        /\ DistSq(<<es[k].x, es[k].y>>, <<s.x, s.y>>)
             <= ShortestFiringRange * ShortestFiringRange}

\* C23: in a frame in which a living enemy within firing range of the player
\* has its shooting timer reach its interval and the firing gate passes
\* (random.random() < 0.1), an enemy-owned kinetic shot is handed to the
\* projectile manager.
EnemyShotHandedOver ==
    [][/\ IsGameFrame /\ ~call'.raised
       /\ call'.roll < 10
       /\ DueToShoot(enemies, ship, call'.dt) # {}
       => \E k \in DOMAIN shots' : ~shots'[k].is_player_shot]_vars

---------------------------------------------------------------------------
(* The heat of the cannon *)

\* C24: after any interleaving of fire() and update(dt) calls the heat of the
\* cannon is between 0 and max_heat.
HeatWithinRange ==
    0 <= cannon.heat_buildup /\ cannon.heat_buildup <= MaxHeat

---------------------------------------------------------------------------
(* DamageCalculator as a calculator: each call is made on inputs drawn from
   the sets below and its result is recorded in call *)

MaxBlastOffset == 230

InitCalc ==
    /\ ship = NewShip
    /\ enemies = << >>
    /\ frame = 0
    /\ call = NoCall
    /\ bombs = << >> /\ shots = << >> /\ beams = << >>
    /\ nextId = 1 /\ hist = NoHistory
    /\ QuietWeapons
    /\ game = [mode |-> "calc"]

\* max_damage_radius of calculate_explosion_damage, squared
MaxDamageRadiusSq(w) == w.powers.radius_sq

BlastStats == {StandardBombStats, RpgBombStats}

\* calculate_explosion_damage(center, target, warhead_data)
CalcExplosion ==
    \E stats \in BlastStats, dx \in 0..MaxBlastOffset, dy \in {0, 30} :
        \E w \in {CreateWarheadData(stats)} :
            /\ call' = [op |-> "calculate_explosion_damage", name |-> stats.name,
                        distance_sq |-> dx * dx + dy * dy,
                        radius_sq |-> MaxDamageRadiusSq(w),
                        damage |-> ExplosionDamage(<<900, 500>>,
                                                   <<900 + dx, 500 + dy>>, w)]
            /\ UNCHANGED <<game, ship, enemies, bombs, shots, beams, cannon,
                           missile, now, frame, nextId, hist>>

(* calculate_projectile_damage works on binary floating-point numbers.  A
   number is m * 2^e with m = 0 or 128 <= m <= 255: the format of the
   interpreter's floats with the significand shortened from 53 to 8 bits,
   which still holds 0.5, 1000 and 3600 exactly.  Every operation rounds its
   exact result to the nearest number, ties to the even significand.  The
   exponent is not limited, so no result overflows or underflows. *)

Zero == [m |-> 0, e |-> 0]
Half == [m |-> 128, e |-> -8]
Thousand == [m |-> 250, e |-> 2]
ThirtySixHundred == [m |-> 225, e |-> 4]

RECURSIVE BitLen(_)
\* number of binary digits of n
BitLen(n) == IF n = 0 THEN 0 ELSE 1 + BitLen(n \div 2)

\* rounding of n * 2^e (n >= 128) that forgets the carry into the exponent
RoundToFloatNoCarry(n, e) ==
    LET k == BitLen(n) - 8
        q == n \div 2^k
        r == n % 2^k
        up == IF k = 0 THEN 0
              ELSE IF 2 * r > 2^k \/ (2 * r = 2^k /\ q % 2 = 1) THEN 1 ELSE 0
    IN IF q + up = 256 THEN [m |-> 128, e |-> e + k]
       ELSE [m |-> q + up, e |-> e + k]

\* the float nearest to n * 2^e (n >= 128), ties to even
RoundToFloat(n, e) ==
    LET k == BitLen(n) - 8
        q == n \div 2^k
        r == n % 2^k
        up == IF k = 0 THEN 0
              ELSE IF 2 * r > 2^k \/ (2 * r = 2^k /\ q % 2 = 1) THEN 1 ELSE 0
    IN IF q + up = 256 THEN [m |-> 128, e |-> e + k + 1]
       ELSE [m |-> q + up, e |-> e + k]

\* a * b
FloatMul(a, b) ==
    IF a.m = 0 \/ b.m = 0 THEN Zero
    ELSE RoundToFloat(a.m * b.m, a.e + b.e)

\* a / b for b # 0; the last bit of the dividend records a remainder
FloatDiv(a, b) ==
    IF a.m = 0 THEN Zero
    ELSE LET n == a.m * 65536
             sticky == IF n % b.m = 0 THEN 0 ELSE 1
         IN RoundToFloat(2 * (n \div b.m) + sticky, a.e - b.e - 17)

\* a < b for a, b >= 0
FloatLess(a, b) ==
    IF a.m = 0 \/ b.m = 0 THEN a.m < b.m
    ELSE a.e < b.e \/ (a.e = b.e /\ a.m < b.m)

\* DamageCalculator.calculate_projectile_damage
CalculateProjectileDamage(mass_kg, velocity_kmh) ==
    LET velocity == FloatDiv(FloatMul(velocity_kmh, Thousand), ThirtySixHundred)
    IN FloatMul(FloatMul(Half, mass_kg), FloatMul(velocity, velocity))

MaxSamples == 40

\* the k-th pair of neighbouring floats from 2^e upwards; the first pair of
\* velocities starts at 0
Neighbours(k, e, from_zero) ==
    IF from_zero /\ k = 0 THEN <<Zero, [m |-> 128, e |-> e]>>
    ELSE <<[m |-> 127 + k, e |-> e], [m |-> 128 + k, e |-> e]>>

\* 1024 km/h, 2880 km/h, 7040 km/h
FixedVelocities == {[m |-> 128, e |-> 3], [m |-> 180, e |-> 4], [m |-> 220, e |-> 5]}
\* 0.5 kg, 1.5 kg, 93 kg
FixedMasses == {[m |-> 128, e |-> -8], [m |-> 192, e |-> -7], [m |-> 186, e |-> -1]}

\* calculate_projectile_damage for two masses m1 < m2 at one velocity
CalcMass ==
    \E k \in 1..MaxSamples, e \in {-7, -1}, v \in FixedVelocities :
        \E p \in {Neighbours(k, e, FALSE)} :
            /\ call' = [op |-> "calculate_projectile_damage", varied |-> "mass_kg",
                        low |-> p[1], high |-> p[2], fixed |-> v,
                        low_j |-> CalculateProjectileDamage(p[1], v),
                        high_j |-> CalculateProjectileDamage(p[2], v)]
            /\ UNCHANGED <<game, ship, enemies, bombs, shots, beams, cannon,
                           missile, now, frame, nextId, hist>>

\* calculate_projectile_damage for two velocities v1 < v2 at one mass
CalcVelocity ==
    \E k \in 0..MaxSamples, e \in {4}, mass \in FixedMasses :
        \E p \in {Neighbours(k, e, TRUE)} :
            /\ call' = [op |-> "calculate_projectile_damage",
                        varied |-> "velocity_kmh",
                        low |-> p[1], high |-> p[2], fixed |-> mass,
                        low_j |-> CalculateProjectileDamage(mass, p[1]),
                        high_j |-> CalculateProjectileDamage(mass, p[2])]
            /\ UNCHANGED <<game, ship, enemies, bombs, shots, beams, cannon,
                           missile, now, frame, nextId, hist>>

NextCalc ==
    \/ CalcExplosion

SpecCalc == InitCalc /\ [][NextCalc]_vars

NextEnergy ==
    \/ CalcMass
    \/ CalcVelocity

SpecEnergy == InitCalc /\ [][NextEnergy]_vars

\* C25: calculate_explosion_damage returns 0 whenever the distance of the
\* target from the centre is greater than max_damage_radius of the warhead,
\* and never returns a negative value.
ExplosionZeroOutsideRadius ==
    call.op = "calculate_explosion_damage" =>
        /\ call.distance_sq > call.radius_sq => call.damage = 0
        /\ call.damage >= 0

\* a standard warhead (radius 219.05 px) evaluated 220 px from the centre
JustOutsideRadius ==
    /\ call.op = "calculate_explosion_damage"
    /\ call.name = "standard_1"
    /\ call.distance_sq = 220 * 220
    /\ call.damage = 0

---------------------------------------------------------------------------
(* DamageCalculator.check_proximity_trigger with the target it returns.
   targets is the list of positions in the order the caller built it;
   distances are compared by their squares. *)

\* the index in among whose distance d[i] is smallest, the first one of equals
\* (the loops replace the closest target only on a strictly smaller distance)
Closest(among, d) ==
    CHOOSE i \in among : \A j \in among : d[i] < d[j] \/ (d[i] = d[j] /\ i <= j)

\* projectile_pos + projectile_velocity * delta_time
NextPos(pos, vel, delta_time) ==
    << pos[1] + IntDiv(vel[1] * delta_time, TicksPerSecond),
       pos[2] + IntDiv(vel[2] * delta_time, TicksPerSecond) >>

\* check_proximity_trigger that makes the current position check only
ProximityTriggerCurrentOnly(pos, vel, targets, fuse_radius, delta_time) ==
    LET r2 == fuse_radius * fuse_radius
        current_dist == [i \in DOMAIN targets |-> DistSq(pos, targets[i])]
        now_in == {i \in DOMAIN targets : current_dist[i] <= r2}
    IN IF now_in # {}
       THEN [trigger |-> TRUE, target |-> targets[Closest(now_in, current_dist)]]
       ELSE [trigger |-> FALSE, target |-> None]

\* DamageCalculator.check_proximity_trigger: (should_trigger, closest_target)
ProximityTrigger(pos, vel, targets, fuse_radius, delta_time) ==
    LET r2 == fuse_radius * fuse_radius
        next_pos == NextPos(pos, vel, delta_time)
        current_dist == [i \in DOMAIN targets |-> DistSq(pos, targets[i])]
        next_dist == [i \in DOMAIN targets |-> DistSq(next_pos, targets[i])]
        now_in == {i \in DOMAIN targets : current_dist[i] <= r2}
        next_in == {i \in DOMAIN targets :
                       next_dist[i] <= r2 /\ next_dist[i] < current_dist[i]}
    IN IF now_in # {}
       THEN [trigger |-> TRUE, target |-> targets[Closest(now_in, current_dist)]]
       ELSE IF delta_time > 0 /\ next_in # {}
       THEN [trigger |-> TRUE, target |-> targets[Closest(next_in, next_dist)]]
       ELSE [trigger |-> FALSE, target |-> None]

MaxFuseTicks == 3

InitFuse ==
    /\ ship = NewShip
    /\ enemies = << >>
    /\ frame = 0
    /\ call = NoCall
    /\ bombs = << >> /\ shots = << >> /\ beams = << >>
    /\ nextId = 1 /\ hist = NoHistory
    /\ QuietWeapons
    /\ game = [mode |-> "fuse"]

FusePositions == {900, 915} \X {460, 470, 480, 490, 510, 520, 530}

\* check_proximity_trigger for a bomb at (900, 500) flying upwards at 400 px/s
CalcFuse ==
    \E a \in FusePositions, b \in FusePositions, dt \in 0..MaxFuseTicks :
        \E r \in {ProximityTrigger(<<900, 500>>, <<0, -400>>, <<a, b>>,
                                   BombProximityRadius, dt)} :
            /\ call' = [op |-> "check_proximity_trigger", pos |-> <<900, 500>>,
                        next_pos |-> NextPos(<<900, 500>>, <<0, -400>>, dt),
                        targets |-> <<a, b>>, delta_time |-> dt,
                        fuse_radius |-> BombProximityRadius,
                        trigger |-> r.trigger, target |-> r.target]
            /\ UNCHANGED <<game, ship, enemies, bombs, shots, beams, cannon,
                           missile, now, frame, nextId, hist>>

NextFuse ==
    \/ CalcFuse

SpecFuse == InitFuse /\ [][NextFuse]_vars

\* the distances (squared) at which the targets of the call satisfy the
\* current position check
CurrentHits ==
    {DistSq(call.pos, call.targets[i]) : i \in
        {j \in DOMAIN call.targets :
            DistSq(call.pos, call.targets[j]) <= call.fuse_radius * call.fuse_radius}}

\* the distances (squared) at which they satisfy the check at
\* position + velocity * delta_time
PredictedHits ==
    IF call.delta_time > 0
    THEN {DistSq(call.next_pos, call.targets[i]) : i \in
            {j \in DOMAIN call.targets :
                DistSq(call.next_pos, call.targets[j])
                    <= call.fuse_radius * call.fuse_radius}}
    ELSE {}

\* the smallest distance at which the returned target satisfies a check
ReturnedAt(hits, from) ==
    /\ DistSq(from, call.target) \in hits
    /\ \A d \in hits : DistSq(from, call.target) <= d

\* C29 as stated: check_proximity_trigger returns (True, t) whenever some
\* target is within fuse_radius of the current position or, for delta_time >
\* 0, of position + velocity * delta_time; t is the target with the smallest
\* distance among both checks; (False, None) is returned only when no target
\* satisfies either check.
FuseReturnsNearestOfBoth ==
    call.op = "check_proximity_trigger" =>
        IF CurrentHits \cup PredictedHits # {}
        THEN /\ call.trigger
             /\ \/ ReturnedAt(CurrentHits \cup PredictedHits, call.pos)
                \/ /\ call.delta_time > 0
                   /\ ReturnedAt(CurrentHits \cup PredictedHits, call.next_pos)
        ELSE ~call.trigger /\ call.target = None

\* C29 amended: the result is (True, t) exactly when some target satisfies
\* one of the two checks; if some target is within fuse_radius of the current
\* position, t is the nearest of those targets by its current distance, and
\* the predicted position is not consulted; otherwise t is the target nearest
\* to position + velocity * delta_time.
FuseReturnsNearestCurrentFirst ==
    call.op = "check_proximity_trigger" =>
        IF CurrentHits # {}
        THEN call.trigger /\ ReturnedAt(CurrentHits, call.pos)
        ELSE IF PredictedHits # {}
        THEN call.trigger /\ ReturnedAt(PredictedHits, call.next_pos)
        ELSE ~call.trigger /\ call.target = None

\* a target inside the fuse radius now is returned although the other target
\* will be nearer to the predicted position
NearerAtPredictedPosition ==
    /\ call.op = "check_proximity_trigger"
    /\ call.trigger
    /\ CurrentHits # {} /\ PredictedHits # {}
    /\ \E d \in PredictedHits : d < DistSq(call.pos, call.target)
                                /\ d < DistSq(call.next_pos, call.target)

---------------------------------------------------------------------------
(* Lifetimes: slow projectiles on their way to one enemy that does not move,
   in frames of 1 s, 2 s and 8 s.  game.proj[id] counts, for the projectile
   with that id, the dt of the updates since its spawn and the events it
   caused. *)

MaxExpiryTicks == 480
MaxExpiryProjectiles == 2

InitExpiry ==
    /\ ship = NewShip
    /\ enemies = << NewEnemy("bomber", 3, 1000, 500, 0, 0,
                             2 * TicksPerSecond, 2 * TicksPerSecond) >>
    /\ frame = 0
    /\ call = NoCall
    /\ bombs = << >> /\ shots = << >> /\ beams = << >>
    /\ nextId = 1 /\ hist = NoHistory
    /\ QuietWeapons
    /\ game = [mode |-> "expiry", elapsed |-> 0, proj |-> << >>]

ExpirySpawned(kind) ==
    /\ nextId <= MaxExpiryProjectiles
    /\ nextId' = nextId + 1
    /\ game' = [game EXCEPT !.proj = Append(@, [kind |-> kind, age |-> 0,
                                                 events |-> 0])]
    /\ call' = [op |-> "pm.add", kind |-> kind]

\* add_bomb: a bomb 200 px below the enemy, rising at 20 px/s
ExpiryBomb ==
    \E stats \in {StandardBombStats} :
        /\ ExpirySpawned("bomb")
        /\ bombs' = AddBomb(bombs, nextId, 1000, 700, 0, -20, stats, "group")
        /\ UNCHANGED <<ship, enemies, shots, beams, cannon, missile, now, frame,
                       hist>>

\* add_kinetic_shot: a player shot 800 px below the enemy, rising at 160 px/s
ExpiryShot ==
    /\ ExpirySpawned("shot")
    /\ shots' = AddKineticShot(shots, nextId, 1000, 1300, 0, -160, 500, 800, TRUE)
    /\ UNCHANGED <<ship, enemies, bombs, beams, cannon, missile, now, frame, hist>>

ExpiryDts == {TicksPerSecond, 2 * TicksPerSecond, 8 * TicksPerSecond}

\* ProjectileManager.update(delta_time, enemies, player_ship)
ExpiryFrame ==
    \E dt \in ExpiryDts :
        \E r \in {ProjectileUpdate(bombs, shots, beams, enemies, ship, dt, 99,
                                   "E")} :
           /\ game.elapsed + dt <= MaxExpiryTicks
           /\ frame' = frame + 1
           /\ bombs' = r.bombs /\ shots' = r.shots /\ beams' = r.beams
           /\ enemies' = r.world.enemies
           /\ ship' = r.world.ship
           /\ call' = [op |-> "pm.update", dt |-> dt, log |-> r.world.log,
                       raw_bombs |-> r.raw_bombs, raw_shots |-> r.raw_shots]
           /\ game' = [game EXCEPT
                         !.elapsed = @ + dt,
                         !.proj = [id \in DOMAIN @ |->
                                     [@[id] EXCEPT
                                        !.age = @ + dt,
                                        !.events = @ + Cardinality(
                                            EventsOf(r.world.log, id))]]]
           /\ UNCHANGED <<cannon, missile, now, nextId, hist>>

NextExpiry ==
    \/ ExpiryBomb
    \/ ExpiryShot
    \/ ExpiryFrame

SpecExpiry == InitExpiry /\ [][NextExpiry]_vars

\* the accumulated dt since the spawn has reached the time to live
Expired(p) ==
    p.age >= (IF p.kind = "bomb" THEN BombLifetime ELSE ShotLifetime)

\* C27: every bomb is inactive and out of the list no later than the frame in
\* which the dt accumulated since its spawn reaches 10 s (every kinetic shot:
\* 5 s), and a bomb whose lifetime has run out causes no take_damage call and
\* no detonation in that frame or any later one, whether or not a living
\* enemy is within its proximity radius.
TimeToLive ==
    [][call'.op = "pm.update" =>
         \A id \in DOMAIN game'.proj :
            Expired(game'.proj[id]) =>
               /\ Raw(bombs', id) = {} /\ Raw(shots', id) = {}
               /\ \A k \in Raw(call'.raw_bombs, id) : ~call'.raw_bombs[k].active
               /\ \A k \in Raw(call'.raw_shots, id) : ~call'.raw_shots[k].active
               /\ game'.proj[id].kind = "bomb"
                    => EventsOf(call'.log, id) = {}]_vars

\* a bomb that never caused an event went inactive in the frame that made its
\* age 10 s, within its proximity radius of the living enemy
DudNextToEnemy ==
    /\ call.op = "pm.update"
    /\ \E k \in DOMAIN call.raw_bombs :
          LET b == call.raw_bombs[k]
          IN /\ ~b.active
             /\ game.proj[b.id].age = BombLifetime
             /\ game.proj[b.id].events = 0
             /\ enemies[1].alive
             /\ DistSq(<<b.x, b.y>>, <<enemies[1].x, enemies[1].y>>)
                  <= b.proximity_radius * b.proximity_radius
             /\ Raw(bombs, b.id) = {}

---------------------------------------------------------------------------
(* Detonations next to the player ship: two enemies side by side, a third
   one far away, bombs rising towards them, and the player ship either at
   its start position or 100 px below the enemies *)

MaxBlastFrames == 3
MaxBlastBombs == 2

InitBlast ==
    /\ ship \in {NewShip, [NewShip EXCEPT !.x = 1000, !.y = 600]}
    /\ enemies = << NewEnemy("bomber", 3, 1000, 500, 0, 0,
                             2 * TicksPerSecond, 2 * TicksPerSecond),
                    NewEnemy("fighter", 1, 1015, 500, 0, 0,
                             2 * TicksPerSecond, 2 * TicksPerSecond),
                    NewEnemy("scout", 1, 1400, 500, 0, 0,
                             2 * TicksPerSecond, 2 * TicksPerSecond) >>
    /\ frame = 0
    /\ call = NoCall
    /\ bombs = << >> /\ shots = << >> /\ beams = << >>
    /\ nextId = 1 /\ hist = NoHistory
    /\ QuietWeapons
    /\ game = [mode |-> "blast"]

\* another weapon has destroyed an enemy; it stays in the list
BlastKill ==
    \E i \in {1, 2} :
        /\ enemies[i].alive
        /\ enemies' = [enemies EXCEPT
                         ![i] = EnemyTakeDamage(@, @.current_hp, "E").enemy]
        /\ call' = [op |-> "enemy.take_damage", target |-> i]
        /\ UNCHANGED <<game, ship, bombs, shots, beams, cannon, missile, now,
                       frame, nextId, hist>>

\* add_bomb
BlastBomb ==
    \E stats \in {RpgBombStats, StandardBombStats}, y \in {540, 560} :
        /\ nextId <= MaxBlastBombs
        /\ nextId' = nextId + 1
        /\ bombs' = AddBomb(bombs, nextId, 1000, y, 0, -220, stats, "group")
        /\ call' = [op |-> "pm.add", kind |-> "bomb"]
        /\ UNCHANGED <<game, ship, enemies, shots, beams, cannon, missile, now,
                       frame, hist>>

\* ProjectileManager.update(delta_time, enemies, player_ship)
BlastFrame ==
    \E dt \in {4}, roll \in {99}, angle \in {"E"} :
        \E r \in {ProjectileUpdate(bombs, shots, beams, enemies, ship, dt, roll,
                                   angle)} :
           /\ frame < MaxBlastFrames
           /\ frame' = frame + 1
           /\ bombs' = r.bombs /\ shots' = r.shots /\ beams' = r.beams
           /\ enemies' = r.world.enemies
           /\ ship' = r.world.ship
           /\ call' = [op |-> "pm.update", dt |-> dt, log |-> r.world.log,
                       raw_bombs |-> r.raw_bombs, raw_shots |-> r.raw_shots]
           /\ UNCHANGED <<game, cannon, missile, now, nextId, hist>>

NextBlast ==
    \/ BlastKill
    \/ BlastBomb
    \/ BlastFrame

SpecBlast == InitBlast /\ [][NextBlast]_vars

\* the take_damage calls on target (0: the player ship) that a log holds for
\* the bomb src
DamageCalls(log, src, target) ==
    {k \in DOMAIN log : /\ log[k].ev = "damage" /\ log[k].src = src
                        /\ log[k].target = target}

\* C28: in one bomb detonation every living enemy whose explosion damage is
\* positive receives exactly one take_damage call with that damage, the
\* player ship receives exactly one call with a tenth of the damage computed
\* at its position (none if that damage is 0), and a dead enemy receives no
\* call.  Stated for the first detonation of a frame, whose targets are in
\* the state the frame started with.
DetonationDistribution ==
    [][call'.op = "pm.update" /\ call'.log # << >>
         => LET d == call'.log[1]
                b == bombs[CHOOSE k \in DOMAIN bombs : bombs[k].id = d.src]
                at_player == ExplosionDamage(<<d.x, d.y>>, <<ship.x, ship.y>>,
                                             b.warhead_data)
                to_player == DamageCalls(call'.log, d.src, 0)
            IN /\ d.ev = "detonate"
               /\ \A i \in DOMAIN enemies :
                     LET damage == ExplosionDamage(<<d.x, d.y>>,
                                                   <<enemies[i].x, enemies[i].y>>,
                                                   b.warhead_data)
                         calls == DamageCalls(call'.log, d.src, i)
                     IN IF enemies[i].alive /\ damage > 0
                        THEN /\ Cardinality(calls) = 1
                             /\ \A k \in calls : call'.log[k].amount = damage
                        ELSE calls = {}
               /\ IF at_player > 0
                  THEN /\ Cardinality(to_player) = 1
                       /\ \A k \in to_player :
                             /\ 10 * call'.log[k].amount <= at_player
                             /\ at_player < 10 * (call'.log[k].amount + 1)
                  ELSE to_player = {}]_vars

\* a detonation has damaged the first enemy and the player ship, and has
\* passed over the second enemy, which was dead and within the same distance
DetonationSparesTheDead ==
    /\ call.op = "pm.update" /\ call.log # << >>
    /\ call.log[1].ev = "detonate"
    /\ \E k \in DamageCalls(call.log, call.log[1].src, 1) : call.log[k].amount > 0
    /\ \E k \in DamageCalls(call.log, call.log[1].src, 0) : call.log[k].amount > 0
    /\ DamageCalls(call.log, call.log[1].src, 2) = {}
    /\ ~enemies[2].alive
    /\ DistSq(<<call.log[1].x, call.log[1].y>>, <<enemies[2].x, enemies[2].y>>)
         <= DistSq(<<call.log[1].x, call.log[1].y>>, <<ship.x, ship.y>>)

---------------------------------------------------------------------------
(* CannonManager: the cannon projectiles kept apart from the projectile
   manager's lists *)

CannonCollisionRadius == 8
CannonShotLifetime == 3 * TicksPerSecond
CannonMargin == 50

\* CannonManager.add_cannon_shot / CannonProjectile.__init__
AddCannonShot(list, id, x, y, vx, vy, mass_g, speed_ms, is_player_shot) ==
    Append(list,
           [id |-> id, x |-> x, y |-> y, vx |-> vx, vy |-> vy,
            is_player_shot |-> is_player_shot, active |-> TRUE,
            lifetime |-> CannonShotLifetime,
            damage |-> ProjectileDamage(mass_g, speed_ms)])

\* CannonProjectile.update: the moved shot; its active flag is the result
CannonProjectileUpdate(sh, delta_time) ==
    IF ~sh.active THEN sh
    ELSE Bind(LAMBDA m : [m EXCEPT !.active = m.lifetime > 0],
              MoveProjectile(sh, delta_time))

\* the enemies a cannon shot touches
CannonTouches(sh, es) ==
    { i \in DOMAIN es :
        /\ es[i].active
        /\ DistSq(<<sh.x, sh.y>>, <<es[i].x, es[i].y>>)
             < (CannonCollisionRadius + es[i].radius)
               * (CannonCollisionRadius + es[i].radius) }

\* CannonManager._check_shot_collisions: whether the shot stays in the list,
\* and the world
CheckShotCollisions(sh, w, roll, angle) ==
    IF ~sh.active THEN [keep |-> TRUE, world |-> w]
    ELSE IF sh.is_player_shot
    THEN IF CannonTouches(sh, w.enemies) # {}
         THEN [keep |-> FALSE,
               world |-> HitEnemy(w, First(CannonTouches(sh, w.enemies)), sh,
                                  sh.damage, angle)]
         ELSE [keep |-> TRUE, world |-> w]
    ELSE IF DistSq(<<sh.x, sh.y>>, <<w.ship.x, w.ship.y>>)
              < (CannonCollisionRadius + ShipRadius)
                * (CannonCollisionRadius + ShipRadius)
    THEN [keep |-> FALSE,
          world |-> HitPlayer(w, sh, sh.damage, roll, angle)]
    ELSE [keep |-> TRUE, world |-> w]

\* CannonManager.update: the loop over the shots from the k-th on; kept holds
\* the shots that stay
RECURSIVE CannonManagerUpdate(_, _, _, _, _, _, _)
CannonManagerUpdate(list, k, kept, w, delta_time, roll, angle) ==
    IF k > Len(list) THEN [list |-> kept, world |-> w]
    ELSE Bind(LAMBDA m :
                IF ~m.active
                   \/ m.x < -CannonMargin \/ m.x > ScreenWidth + CannonMargin
                   \/ m.y < -CannonMargin \/ m.y > ScreenHeight + CannonMargin
                THEN CannonManagerUpdate(list, k + 1, kept, w, delta_time, roll,
                                         angle)
                ELSE Bind(LAMBDA r :
                            CannonManagerUpdate(
                                list, k + 1,
                                IF r.keep THEN Append(kept, m) ELSE kept,
                                r.world, delta_time, roll, angle),
                          CheckShotCollisions(m, w, roll, angle)),
              CannonProjectileUpdate(list[k], delta_time))

---------------------------------------------------------------------------
(* Kinetic shots of both sides between the player ship and an enemy 60 px
   above it: a shot starts at the place of the one who fired it *)

MaxSideFrames == 4
MaxSideShots == 2

InitSides ==
    /\ ship = [NewShip EXCEPT !.x = 1000, !.y = 560]
    /\ enemies = << NewEnemy("bomber", 3, 1000, 500, 0, 0,
                             2 * TicksPerSecond, 2 * TicksPerSecond) >>
    /\ frame = 0
    /\ call = NoCall
    /\ bombs = << >> /\ shots = << >> /\ beams = << >>
    /\ nextId = 1 /\ hist = NoHistory
    /\ QuietWeapons
    /\ game = [mode |-> "sides", cannon_shots |-> << >>]

\* add_kinetic_shot(..., is_player_shot): a round of the player leaves the
\* ship upwards, a round of the enemy leaves the enemy downwards
SidesShot ==
    \E sh \in { [y |-> 560, vy |-> -400, player |-> TRUE],
                [y |-> 500, vy |-> 400, player |-> FALSE] } :
        /\ nextId <= MaxSideShots
        /\ nextId' = nextId + 1
        /\ shots' = AddKineticShot(shots, nextId, 1000, sh.y, 0, sh.vy, 10, 400,
                                   sh.player)
        /\ call' = [op |-> "pm.add", kind |-> "shot", player |-> sh.player]
        /\ UNCHANGED <<game, ship, enemies, bombs, beams, cannon, missile, now,
                       frame, hist>>

\* ProjectileManager.update(delta_time, enemies, player_ship)
SidesFrame ==
    \E dt \in {1, 2}, roll \in {99}, angle \in {"E"} :
        \E r \in {ProjectileUpdate(bombs, shots, beams, enemies, ship, dt, roll,
                                   angle)} :
           /\ frame < MaxSideFrames
           /\ frame' = frame + 1
           /\ bombs' = r.bombs /\ shots' = r.shots /\ beams' = r.beams
           /\ enemies' = r.world.enemies
           /\ ship' = r.world.ship
           /\ call' = [op |-> "pm.update", dt |-> dt, log |-> r.world.log,
                       raw_bombs |-> r.raw_bombs, raw_shots |-> r.raw_shots]
           /\ UNCHANGED <<game, cannon, missile, now, nextId, hist>>

\* add_cannon_shot(..., is_player_shot), from the same two places
SidesCannonShot ==
    \E sh \in { [y |-> 560, vy |-> -400, player |-> TRUE],
                [y |-> 500, vy |-> 400, player |-> FALSE] } :
        /\ nextId <= MaxSideShots
        /\ nextId' = nextId + 1
        /\ game' = [game EXCEPT
                      !.cannon_shots = AddCannonShot(@, nextId, 1000, sh.y, 0,
                                                     sh.vy, 10, 400, sh.player)]
        /\ call' = [op |-> "cm.add", kind |-> "shot", player |-> sh.player]
        /\ UNCHANGED <<ship, enemies, bombs, shots, beams, cannon, missile, now,
                       frame, hist>>

\* CannonManager.update(delta_time, enemies, player_ship, width, height)
SidesCannonFrame ==
    \E dt \in {1, 2}, roll \in {99}, angle \in {"E"} :
        \E r \in {CannonManagerUpdate(game.cannon_shots, 1, << >>,
                                      World(enemies, ship), dt, roll, angle)} :
           /\ frame < MaxSideFrames
           /\ frame' = frame + 1
           /\ game' = [game EXCEPT !.cannon_shots = r.list]
           /\ enemies' = r.world.enemies
           /\ ship' = r.world.ship
           /\ call' = [op |-> "cm.update", dt |-> dt, log |-> r.world.log]
           /\ UNCHANGED <<bombs, shots, beams, cannon, missile, now, nextId, hist>>

NextSides ==
    \/ SidesShot
    \/ SidesFrame
    \/ SidesCannonShot
    \/ SidesCannonFrame

SpecSides == InitSides /\ [][NextSides]_vars

\* C30: a kinetic shot with is_player_shot = True never causes a take_damage
\* call on the player ship, and a shot with is_player_shot = False never
\* causes one on an enemy, wherever the shot, the ship and the enemies are.
ShotsHitTheOtherSide ==
    [][call'.op \in {"pm.update", "cm.update"} =>
         \A k \in DOMAIN call'.log :
            LET fired == {shots[n] : n \in DOMAIN shots}
                           \cup {game.cannon_shots[n] : n \in DOMAIN game.cannon_shots}
            IN /\ \E sh \in fired : sh.id = call'.log[k].src
               /\ \A sh \in fired :
                     sh.id = call'.log[k].src =>
                        IF sh.is_player_shot
                        THEN call'.log[k].target # 0
                        ELSE call'.log[k].target = 0]_vars

\* after an update a round of the player lies within the collision distance
\* of the player ship and a round of the enemy within that of the living
\* enemy, and neither call was made
OverlapWithOwnSide ==
    /\ call.op = "pm.update" /\ call.log = << >>
    /\ game.cannon_shots = << >>
    /\ \E k \in DOMAIN shots :
          /\ shots[k].is_player_shot /\ shots[k].active
          /\ HitsPlayer(shots[k], ship)
    /\ \E k \in DOMAIN shots :
          /\ ~shots[k].is_player_shot /\ shots[k].active
          /\ Colliding(shots[k], enemies) # {}

---------------------------------------------------------------------------
(* Kill credit in a run of the game (SpecWave) *)

RECURSIVE ExperienceEarned(_, _)
\* all the experience a progression has been given: what it holds now and
\* what its level-ups from level 1 to level have used up
ExperienceEarned(level, experience) ==
    IF level <= 1 THEN experience
    ELSE ExperienceEarned(level - 1, experience + 100 + (level - 2) * 50)

RECURSIVE KillExperience(_, _)
\* the experience on_enemy_killed grants for the dead enemies of a list from
\* its k-th element, one call for each
KillExperience(es, k) ==
    IF k > Len(es) THEN 0
    ELSE (IF es[k].alive THEN 0 ELSE 10 + es[k].level * 3)
           + KillExperience(es, k + 1)

\* C31: for every enemy that has died, the frame that handles it invokes
\* on_enemy_killed once and adds one to enemies_killed_this_wave and to
\* total_enemies_killed; an enemy that only left the playfield gets neither.
KillCreditExactlyOnce ==
    [][ (IsGameFrame /\ game.mgr.input_manager /\ game.has_progression) =>
        /\ ExperienceEarned(game'.prog.player_level, game'.prog.experience)
             = ExperienceEarned(game.prog.player_level, game.prog.experience)
                 + KillExperience(enemies, 1)
        /\ call'.mgr_after.total_enemies_killed
             = game.mgr.total_enemies_killed + Cardinality(DeadInList(enemies))
        /\ call'.mgr_after.enemies_killed_this_wave
             = game.mgr.enemies_killed_this_wave
                 + Cardinality(DeadInList(enemies)) ]_vars

---------------------------------------------------------------------------
(* Perks, drops and the modifier bundle of ProgressionManager (SpecPerks) *)

MaxPerkKills == 3
MaxPerkReads == 3

\* DropSystem.drop_chance is kept in units of 1/640, so that 0.3 and its
\* products with 1.5 are whole numbers
DropChanceOne == 640
InitialDropChance == 192

Perks == {"explosive_master", "shield_boost", "rapid_reload", "lucky_drops"}

\* PerkSystem.perks: cost in Kerr Scrap, effect name, value in percent
PerkCost(perk_id) ==
    CASE perk_id = "explosive_master" -> 50
      [] perk_id = "shield_boost" -> 40
      [] perk_id = "rapid_reload" -> 60
      [] OTHER -> 30

PerkEffect(perk_id) ==
    CASE perk_id = "explosive_master" -> "explosive_damage_mult"
      [] perk_id = "shield_boost" -> "shield_capacity_mult"
      [] perk_id = "rapid_reload" -> "cooldown_mult"
      [] OTHER -> "drop_chance_mult"

PerkValue(perk_id) ==
    CASE perk_id = "explosive_master" -> 125
      [] perk_id = "shield_boost" -> 150
      [] perk_id = "rapid_reload" -> 75
      [] OTHER -> 150

\* ProgressionManager.__init__
NewProgressionManager ==
    [mode |-> "perks", prog |-> NewPlayerStats, kerr_scrap |-> 0,
     active_perks |-> {}, drop_chance |-> InitialDropChance,
     kills |-> 0, reads |-> 0]

\* DropSystem.check_drop: roll is random.random() in percent, base_scrap is
\* random.randint(1, 3); the amount dropped, 0 for no drop
CheckDrop(drop_chance, enemy_level, roll, base_scrap) ==
    IF roll * DropChanceOne < drop_chance * 100
    THEN base_scrap + (enemy_level - 1)
    ELSE 0

\* ProgressionManager.on_enemy_killed with its drop check and Inventory.add_item
ManagerKill(m, enemy_level, enemy_type, roll, base_scrap) ==
    [m EXCEPT !.prog = ManagerOnEnemyKilled(@, enemy_level, enemy_type),
              !.kerr_scrap = @ + CheckDrop(m.drop_chance, enemy_level,
                                           roll, base_scrap)]

\* PerkSystem.can_purchase
CanPurchase(m, perk_id) ==
    /\ perk_id \in Perks
    /\ perk_id \notin m.active_perks
    /\ m.kerr_scrap >= PerkCost(perk_id)

\* PerkSystem.purchase_perk with Inventory.remove_item
PurchasePerk(m, perk_id) ==
    IF ~CanPurchase(m, perk_id) THEN m
    ELSE [m EXCEPT !.kerr_scrap = @ - PerkCost(perk_id),
                   !.active_perks = @ \cup {perk_id}]

\* PerkSystem.get_active_effects: one multiplier per effect of a bought perk
GetActiveEffects(m) ==
    [e \in {PerkEffect(perk_id) : perk_id \in m.active_perks} |->
        PerkValue(CHOOSE perk_id \in m.active_perks : PerkEffect(perk_id) = e)]

\* ProgressionManager.get_weapon_modifiers: the bundle it returns and the
\* manager it leaves behind; the drop_chance_mult effect is multiplied into
\* DropSystem.drop_chance during the call
ManagerGetWeaponModifiers(m) ==
    LET perk_effects == GetActiveEffects(m)
    IN [modifiers |->
          [stats |-> ManagerWeaponModifiers(m.prog),
           perks |-> [e \in DOMAIN perk_effects \ {"drop_chance_mult"} |->
                         perk_effects[e]]],
        manager |->
          IF "drop_chance_mult" \in DOMAIN perk_effects
          THEN [m EXCEPT !.drop_chance =
                             (@ * perk_effects["drop_chance_mult"]) \div 100]
          ELSE m]

InitPerks ==
    /\ ship = NewShip /\ enemies = << >> /\ frame = 0 /\ call = NoCall
    /\ bombs = << >> /\ shots = << >> /\ beams = << >> /\ nextId = 1
    /\ hist = NoHistory /\ QuietWeapons
    /\ game = NewProgressionManager

PerkKill ==
    /\ game.kills < MaxPerkKills
    /\ \E enemy_level \in {1, 28}, roll \in {0, 50}, base_scrap \in {3} :
         \E r \in {ManagerKill(game, enemy_level, "fighter", roll, base_scrap)} :
            /\ game' = [r EXCEPT !.kills = @ + 1]
            /\ call' = [op |-> "on_enemy_killed",
                        drop |-> r.kerr_scrap - game.kerr_scrap]
    /\ UNCHANGED <<ship, enemies, bombs, shots, beams, cannon, missile, now,
                   frame, nextId, hist>>

PerkPurchase ==
    /\ \E perk_id \in Perks :
         /\ CanPurchase(game, perk_id)
         /\ game' = PurchasePerk(game, perk_id)
         /\ call' = [op |-> "purchase_perk", perk_id |-> perk_id]
    /\ UNCHANGED <<ship, enemies, bombs, shots, beams, cannon, missile, now,
                   frame, nextId, hist>>

PerkRead ==
    /\ game.reads < MaxPerkReads
    /\ \E r \in {ManagerGetWeaponModifiers(game)} :
         /\ game' = [r.manager EXCEPT !.reads = @ + 1]
         /\ call' = [op |-> "get_weapon_modifiers", modifiers |-> r.modifiers]
    /\ UNCHANGED <<ship, enemies, bombs, shots, beams, cannon, missile, now,
                   frame, nextId, hist>>

NextPerks == PerkKill \/ PerkPurchase \/ PerkRead

SpecPerks == InitPerks /\ [][NextPerks]_vars

IsPerkRead == call'.op = "get_weapon_modifiers" /\ game'.reads = game.reads + 1

\* C32: a get_weapon_modifiers call leaves every field of the progression
\* state, DropSystem.drop_chance included, as it was, and a call that follows
\* another one directly returns the same bundle.
ModifiersReadOnly ==
    [][ IsPerkRead =>
        /\ game'.prog = game.prog
        /\ game'.kerr_scrap = game.kerr_scrap
        /\ game'.active_perks = game.active_perks
        /\ game'.drop_chance = game.drop_chance
        /\ (call.op = "get_weapon_modifiers"
              => call'.modifiers = call.modifiers) ]_vars

---------------------------------------------------------------------------
(* Stat points of the three progression implementations (SpecPoints) *)

MaxPointsLevel == 4

StatNames == {"attack", "defense", "evasion", "shield"}

\* the progression objects that offer on_enemy_killed and allocate_stat_point:
\* PlayerStats of ProgressionManager, ProgressionIntegrator of
\* rpg_bomb_system.py and ProgressionIntegrator of game_director.py
PointsImplementations == {"manager", "rpg", "director"}

PointsOnEnemyKilled(impl, p, enemy_level, enemy_type) ==
    IF impl = "director"
    THEN ProgressionOnEnemyKilled(p, enemy_type, enemy_level, 99).prog
    ELSE OnEnemyKilled(impl, p, enemy_level, enemy_type)

PointsAllocateStat(impl, p, stat_name) ==
    IF impl = "director" THEN AllocateStatPoint(p, stat_name)
    ELSE AllocateStat(impl, p, stat_name)

InitPoints ==
    /\ ship = NewShip /\ enemies = << >> /\ frame = 0 /\ call = NoCall
    /\ bombs = << >> /\ shots = << >> /\ beams = << >> /\ nextId = 1
    /\ hist = NoHistory /\ QuietWeapons
    /\ \E impl \in PointsImplementations :
          game = [mode |-> "points", impl |-> impl,
                  p |-> CASE impl = "manager" -> NewPlayerStats
                          [] impl = "rpg" -> NewRpgProgression
                          [] OTHER -> NewProgression]

PointsKill ==
    /\ game.p.player_level < MaxPointsLevel
    /\ \E enemy_level \in {3, 30} :
         \E q \in {PointsOnEnemyKilled(game.impl, game.p, enemy_level, "fighter")} :
            /\ game' = [game EXCEPT !.p = q]
            /\ call' = [op |-> "on_enemy_killed", stat |-> "", points |-> 0]
    /\ UNCHANGED <<ship, enemies, bombs, shots, beams, cannon, missile, now,
                   frame, nextId, hist>>

\* allocate_stat_point is called with any name, with or without a point to
\* spend
PointsAllocate ==
    /\ \E stat_name \in StatNames \cup {"luck"} :
         \E q \in {PointsAllocateStat(game.impl, game.p, stat_name)} :
            /\ game' = [game EXCEPT !.p = q]
            /\ call' = [op |-> "allocate_stat_point", stat |-> stat_name,
                        points |-> game.p.stat_points]
    /\ UNCHANGED <<ship, enemies, bombs, shots, beams, cannon, missile, now,
                   frame, nextId, hist>>

NextPoints == PointsKill \/ PointsAllocate

SpecPoints == InitPoints /\ [][NextPoints]_vars

\* the points a progression holds and the points it has put into attributes
PointsHeld(p) ==
    p.stat_points + (p.attack - 1) + (p.defense - 1) + (p.evasion - 1)
      + (p.shield - 1)

\* C33: in every state stat_points >= 0 and level - 1 = stat_points plus the
\* points in the four attributes; an allocate_stat_point call made without a
\* point to spend or with an unknown stat name leaves stat_points and the four
\* attributes unchanged.
StatPointsConserved ==
    /\ [](game.p.stat_points >= 0 /\ game.p.player_level - 1 = PointsHeld(game.p))
    /\ [][ (call'.op = "allocate_stat_point"
             /\ (game.p.stat_points <= 0 \/ call'.stat \notin StatNames)) =>
           /\ game'.p.stat_points = game.p.stat_points
           /\ game'.p.attack = game.p.attack
           /\ game'.p.defense = game.p.defense
           /\ game'.p.evasion = game.p.evasion
           /\ game'.p.shield = game.p.shield ]_vars

---------------------------------------------------------------------------
(* The class decorators applied more than once (SpecDecor) *)

MaxDecorEnemies == 2

\* a class as the decorators leave it: the function its __init__ names and
\* the function its __original_init__ attribute names
UndecoratedClass == [init |-> "original", original_init |-> "unset"]

\* add_universal_cannon_to_ship and add_weapons_to_basic_enemy: the current
\* __init__ is stored as __original_init__ and the wrapper takes its place
DecorateClass(c) == [init |-> "wrapper", original_init |-> c.init]

\* whether a call of __init__ returns. The wrapper looks __original_init__
\* up on the instance when it runs: once that attribute names a wrapper, the
\* wrapper calls a wrapper that looks up the same attribute, and the call
\* ends in a RecursionError.
InitReturns(c) == c.init = "original" \/ c.original_init = "original"

InitDecor ==
    /\ ship = NewShip /\ enemies = << >> /\ frame = 0 /\ call = NoCall
    /\ bombs = << >> /\ shots = << >> /\ beams = << >> /\ nextId = 1
    /\ hist = NoHistory /\ QuietWeapons
    /\ game = [mode |-> "decor", enemy_class |-> UndecoratedClass,
               ship_class |-> UndecoratedClass, has_ship |-> FALSE]

\* create_armed_fighter, create_armed_bomber, create_armed_scout: the enemy
\* is constructed, its class decorated, the enemy initialised again
DecorFactory ==
    /\ Len(enemies) < MaxDecorEnemies
    /\ \E type \in EnemyTypes, level \in {1, 2} :
         \E c1 \in {DecorateClass(game.enemy_class)} :
            /\ IF ~InitReturns(game.enemy_class)
               THEN /\ enemies' = enemies
                    /\ game' = game
                    /\ call' = [op |-> "create_armed", type |-> type,
                                level |-> level, raised |-> TRUE]
               ELSE /\ game' = [game EXCEPT !.enemy_class = c1]
                    /\ IF InitReturns(c1)
                       THEN /\ enemies' = Append(enemies,
                                  CreateArmedEnemy(type, level, 1000, 100, 0, 20,
                                      2 * TicksPerSecond, 2 * TicksPerSecond))
                            /\ call' = [op |-> "create_armed", type |-> type,
                                        level |-> level, raised |-> FALSE]
                       ELSE /\ enemies' = enemies
                            /\ call' = [op |-> "create_armed", type |-> type,
                                        level |-> level, raised |-> TRUE]
    /\ UNCHANGED <<ship, bombs, shots, beams, cannon, missile, now, frame,
                   nextId, hist>>

\* BasicEnemy(...) as EnemyManager._spawn_enemy constructs it
DecorConstruct ==
    /\ Len(enemies) < MaxDecorEnemies
    /\ \E type \in EnemyTypes, level \in {1, 2} :
         IF InitReturns(game.enemy_class)
         THEN /\ enemies' = Append(enemies,
                    IF game.enemy_class.init = "wrapper"
                    THEN InitWeapons(type, level, 1000, 100, 0, 20,
                                     2 * TicksPerSecond, 2 * TicksPerSecond)
                    ELSE DefaultEnemy(type, level, 1000, 100, 0, 20,
                                      2 * TicksPerSecond, 2 * TicksPerSecond))
              /\ call' = [op |-> "construct", type |-> type, level |-> level,
                          raised |-> FALSE]
         ELSE /\ enemies' = enemies
              /\ call' = [op |-> "construct", type |-> type, level |-> level,
                          raised |-> TRUE]
    /\ UNCHANGED <<game, ship, bombs, shots, beams, cannon, missile, now, frame,
                   nextId, hist>>

\* GameDirector._create_player_ship: the ship is constructed, its class
\* decorated, the ship initialised again
DecorCreateShip ==
    /\ \E c1 \in {DecorateClass(game.ship_class)} :
         IF ~InitReturns(game.ship_class)
         THEN /\ UNCHANGED <<game, ship, cannon>>
              /\ call' = [op |-> "create_player_ship", type |-> "Breacher",
                          level |-> 0, raised |-> TRUE]
         ELSE IF InitReturns(c1)
         THEN /\ game' = [game EXCEPT !.ship_class = c1, !.has_ship = TRUE]
              /\ ship' = NewShip
              /\ cannon' = NewCannon
              /\ call' = [op |-> "create_player_ship", type |-> "Breacher",
                          level |-> 0, raised |-> FALSE]
         ELSE /\ game' = [game EXCEPT !.ship_class = c1]
              /\ UNCHANGED <<ship, cannon>>
              /\ call' = [op |-> "create_player_ship", type |-> "Breacher",
                          level |-> 0, raised |-> TRUE]
    /\ UNCHANGED <<enemies, bombs, shots, beams, missile, now, frame, nextId,
                   hist>>

NextDecor == DecorFactory \/ DecorConstruct \/ DecorCreateShip

SpecDecor == InitDecor /\ [][NextDecor]_vars

\* C34: whatever number of times the decorators have been applied before, a
\* create_armed factory returns an enemy and _create_player_ship returns a
\* ship; neither ends in an exception.
ReDecorationHarmless ==
    [][ /\ call'.op = "create_armed" =>
             ~call'.raised /\ Len(enemies') = Len(enemies) + 1
        /\ call'.op = "create_player_ship" =>
             ~call'.raised /\ game'.has_ship ]_vars

---------------------------------------------------------------------------
(* A wave under hits that knock the enemies back (SpecStall, SpecStallFair) *)

MaxStallVolleys == 2
StallRounds == 21
MaxClimb == 400

\* the frame time of the updates
StallDt == 5 * TicksPerSecond

\* the random draws of an update: an enemy of level 1 + 2 that starts with
\* the slowest fall, 20 * (base_size / 13) pixels per second
StallDraws ==
    [position |-> 3, type |-> "fighter", variance |-> 2, vx0 |-> 0, vy0 |-> 20,
     bci |-> 2 * TicksPerSecond, si |-> 2 * TicksPerSecond, target |-> 0,
     drop_roll |-> 10, roll |-> 99, angle |-> "E"]

\* an enemy manager on its own, start_wave(1) called; odd tells whether the
\* number of updates made so far is odd
InitStall ==
    /\ ship = NewShip /\ enemies = << >> /\ frame = 0 /\ call = NoCall
    /\ bombs = << >> /\ shots = << >> /\ beams = << >> /\ nextId = 1
    /\ hist = NoHistory /\ QuietWeapons
    /\ game = [mode |-> "stall", mgr |-> StartWave(NewEnemyManager, 1),
               hits |-> 0, odd |-> FALSE]

\* an enemy that climbs is kept at MaxClimb pixels above the screen: it is
\* not off-screen there, nor anywhere above
Climbing(es) ==
    [k \in DOMAIN es |->
        IF es[k].y < -MaxClimb THEN [es[k] EXCEPT !.y = -MaxClimb] ELSE es[k]]

\* EnemyManager.update(dt, player_ship)
StallFrame ==
    /\ \E a \in {EnemyManagerUpdate(game.mgr, enemies, NewProgression, StallDt,
                                    FALSE, StallDraws)} :
         /\ game' = [game EXCEPT !.mgr = a.mgr, !.odd = ~@]
         /\ enemies' = Climbing(a.enemies)
         /\ call' = [op |-> "enemy_manager.update", handled |-> a.handled,
                     removed |-> Len(enemies) - Len(a.enemies)]
    /\ UNCHANGED <<ship, bombs, shots, beams, cannon, missile, now, frame,
                   nextId, hist>>

RECURSIVE HitTimes(_, _, _, _)
\* take_damage called n times on an enemy
HitTimes(e, n, damage, angle) ==
    IF n = 0 THEN e
    ELSE HitTimes(EnemyTakeDamage(e, damage, angle).enemy, n - 1, damage, angle)

\* the rounds of the player that hit the oldest enemy between two updates:
\* 21 rounds of 101 J, or one round of 2000 J, two of which kill; the
\* knock-back angle drawn is 3 pi / 2
StallHit ==
    /\ game.hits < MaxStallVolleys
    /\ enemies # << >>
    /\ \E v \in {[rounds |-> StallRounds, damage |-> 101],
                 [rounds |-> 1, damage |-> 2000]} :
         \E e \in {HitTimes(enemies[1], v.rounds, v.damage, "N")} :
            /\ enemies' = [enemies EXCEPT ![1] = e]
            /\ game' = [game EXCEPT !.hits = @ + 1]
            /\ call' = [op |-> "enemy.take_damage", damage |-> v.damage,
                        rounds |-> v.rounds, killed |-> ~e.alive]
    /\ UNCHANGED <<ship, bombs, shots, beams, cannon, missile, now, frame,
                   nextId, hist>>

NextStall == StallFrame \/ StallHit

SpecStall == InitStall /\ [][NextStall]_vars

\* the game loop calls EnemyManager.update in every frame
SpecStallFair == SpecStall /\ WF_vars(StallFrame)

\* C35: after start_wave, under repeated updates and whatever the player
\* does, wave_complete eventually becomes true.
WaveEventuallyCompletes == <>(game.mgr.wave_complete)

---------------------------------------------------------------------------
(* Overcharged warheads: activation, duration and cooldown (SpecOvercharge) *)

OverchargeHorizon == 800

OverchargeDuration == 5 * TicksPerSecond

\* since is the dt accumulated by the updates after the last successful
\* activation, -1 before the first one
InitOvercharge ==
    /\ ship = NewShip /\ enemies = << >> /\ frame = 0 /\ call = NoCall
    /\ bombs = << >> /\ shots = << >> /\ beams = << >> /\ nextId = 1
    /\ hist = NoHistory /\ QuietWeapons
    /\ game = [mode |-> "overcharge", since |-> -1]

\* the progression layer pushes a cooldown modifier into the ship
OverchargeModifiers ==
    /\ \E m \in {25, 75, 100} :
         /\ ship.stat_modifiers.cooldown_mult # m
         /\ ship' = ApplyStatModifiersTo(ship, [cooldown_mult |-> m])
         /\ call' = [op |-> "ship.apply_stat_modifiers", ok |-> FALSE]
    /\ UNCHANGED <<game, enemies, bombs, shots, beams, cannon, missile, now,
                   frame, nextId, hist>>

\* the key of the ability: BreacherShip.fire_special_weapon
OverchargeActivate ==
    /\ \E r \in {FireSpecialWeapon(ship, "overcharge_warheads", bombs, nextId, 0)} :
         /\ ship' = r.ship
         /\ game' = IF r.ok THEN [game EXCEPT !.since = 0] ELSE game
         /\ call' = [op |-> "ship.fire_special_weapon", ok |-> r.ok]
    /\ UNCHANGED <<enemies, bombs, shots, beams, cannon, missile, now, frame,
                   nextId, hist>>

\* one update of the ship
OverchargeFrame ==
    /\ \E dt \in {TicksPerSecond \div 2, 3 * TicksPerSecond} :
         /\ ship' = BreacherUpdate(ship, dt, {})
         /\ game' = [game EXCEPT !.since =
                        IF @ < 0 THEN -1 ELSE Min(OverchargeHorizon, @ + dt)]
         /\ call' = [op |-> "ship.update", ok |-> FALSE]
    /\ UNCHANGED <<enemies, bombs, shots, beams, cannon, missile, now, frame,
                   nextId, hist>>

NextOvercharge == OverchargeModifiers \/ OverchargeActivate \/ OverchargeFrame

SpecOvercharge == InitOvercharge /\ [][NextOvercharge]_vars

\* C36: overcharge is active exactly while less than 5 s of dt have
\* accumulated since a successful activation; an active overcharge has a
\* timer above 0; an attempt made while overcharge is active or while its
\* cooldown runs is rejected and leaves the timer and the cooldowns alone.
OverchargeTimeLimited ==
    /\ [](ship.overcharge_active
            <=> (game.since >= 0 /\ game.since < OverchargeDuration))
    /\ [](ship.overcharge_active => ship.overcharge_timer > 0)
    /\ [][ ( /\ call'.op = "ship.fire_special_weapon"
             /\ (ship.overcharge_active
                   \/ OnCooldown(ship, "overcharge_warheads")) ) =>
           /\ ~call'.ok
           /\ ship'.overcharge_active = ship.overcharge_active
           /\ ship'.overcharge_timer = ship.overcharge_timer
           /\ ship'.cooldowns = ship.cooldowns ]_vars

\* an attempt was rejected for the running overcharge alone: its cooldown,
\* shortened by the modifier, is already over
RejectedWhileOvercharged ==
    /\ call.op = "ship.fire_special_weapon" /\ ~call.ok
    /\ ship.overcharge_active
    /\ ship.overcharge_timer < OverchargeDuration
    /\ ~OnCooldown(ship, "overcharge_warheads")

---------------------------------------------------------------------------
(* The keys of the game director: start, pause, game over (SpecKeys) *)

MaxKeyNow == 90
MaxKeyShots == 2

\* the wall-clock time between two frames, which is the delta_time of
\* _update_delta_time: a quarter of a second, or a second
KeyWalls == {TicksPerSecond \div 4, TicksPerSecond}

\* the random draws of a frame
KeyDraws ==
    [position |-> 3, type |-> "fighter", variance |-> 0, vx0 |-> 0, vy0 |-> 60,
     bci |-> 2 * TicksPerSecond, si |-> 2 * TicksPerSecond, target |-> 0,
     drop_roll |-> 10, roll |-> 99, angle |-> "E"]

\* GameDirector.__init__; now is pygame.time.get_ticks()
InitKeys ==
    /\ ship = NewShip /\ enemies = << >> /\ frame = 0 /\ call = NoCall
    /\ bombs = << >> /\ shots = << >> /\ beams = << >> /\ nextId = 1
    /\ hist = NoHistory /\ QuietWeapons
    /\ game = NewDirector

\* _handle_events for a KEYDOWN of K_ESCAPE
HandleEscape(g) ==
    CASE g.mode = "playing" -> [g EXCEPT !.mode = "paused"]
      [] g.mode = "paused" -> [g EXCEPT !.mode = "playing"]
      [] g.mode = "game_over" -> EndCurrentRun(g, FALSE)
      [] OTHER -> g

KeyEscape ==
    /\ game.mode # "crashed"
    /\ game' = HandleEscape(game)
    /\ call' = [op |-> "key", key |-> "ESCAPE", ok |-> FALSE]
    /\ UNCHANGED <<ship, enemies, bombs, shots, beams, cannon, missile, now,
                   frame, nextId, hist>>

\* _handle_events for a KEYDOWN of K_RETURN: start_new_game in the main menu;
\* the input manager of a playing game has no use for the key
KeyReturn ==
    /\ game.mode # "crashed"
    /\ IF game.mode = "menu"
       THEN /\ game' = StartedGame(game)
            /\ ship' = NewShip
            /\ enemies' = << >>
            /\ bombs' = ClearedList /\ shots' = ClearedList /\ beams' = ClearedList
            /\ cannon' = NewCannon
       ELSE UNCHANGED <<game, ship, enemies, bombs, shots, beams, cannon>>
    /\ call' = [op |-> "key", key |-> "RETURN", ok |-> FALSE]
    /\ UNCHANGED <<missile, now, frame, nextId, hist>>

\* _handle_events for a KEYDOWN of K_LCTRL: the event reaches the input
\* manager of a playing game only, which fires the universal cannon at the
\* time pygame.time.get_ticks() shows
KeyControl ==
    /\ game.mode # "crashed"
    /\ IF game.mode = "playing"
       THEN \E r \in {CannonFire(cannon, shots, nextId, ship, now,
                                 [b \in 1..BarrelCount |-> "none"])} :
              /\ nextId + r.made <= MaxKeyShots + 1
              /\ cannon' = r.cannon
              /\ shots' = r.shots
              /\ nextId' = nextId + r.made
              /\ call' = [op |-> "key", key |-> "LCTRL", ok |-> r.ok]
       ELSE /\ UNCHANGED <<cannon, shots, nextId>>
            /\ call' = [op |-> "key", key |-> "LCTRL", ok |-> FALSE]
    /\ UNCHANGED <<game, ship, enemies, bombs, beams, missile, now, frame, hist>>

\* a projectile of 30 kJ meets the ship of a playing game
KeyShipHit ==
    /\ game.mode = "playing"
    /\ ~ShipIsDead(ship)
    /\ ship' = BreacherTakeDamage(ship, 30000, 99, "N").ship
    /\ call' = [op |-> "ship.take_damage", key |-> "", ok |-> FALSE]
    /\ UNCHANGED <<game, enemies, bombs, shots, beams, cannon, missile, now,
                   frame, nextId, hist>>

\* one pass of the loop of GameDirector.run without an event: the clock
\* moves on, and _update runs _update_game in a playing game only
KeyFrame ==
    /\ game.mode # "crashed"
    /\ \E wall \in KeyWalls :
         /\ now + wall <= MaxKeyNow
         /\ now' = now + wall
         /\ IF game.mode = "playing"
            THEN \E r \in {UpdateGameFrame(game, ship, enemies, bombs, shots,
                                           beams, wall, KeyDraws)} :
                   /\ game' = r.game
                   /\ ship' = r.ship
                   /\ enemies' = r.enemies
                   /\ bombs' = r.bombs /\ shots' = r.shots /\ beams' = r.beams
                   /\ cannon' = CannonUpdate(cannon, wall)
            ELSE UNCHANGED <<game, ship, enemies, bombs, shots, beams, cannon>>
    /\ call' = [op |-> "director.frame", key |-> "", ok |-> FALSE]
    /\ UNCHANGED <<missile, frame, nextId, hist>>

NextKeys ==
    \/ KeyEscape
    \/ KeyReturn
    \/ KeyControl
    \/ KeyShipHit
    \/ KeyFrame

SpecKeys == InitKeys /\ [][NextKeys]_vars

\* the player goes on pressing the escape key and the return key
SpecKeysFair == SpecKeys /\ WF_vars(KeyEscape) /\ WF_vars(KeyReturn)

\* C37: with the escape key and the return key pressed again and again, a
\* game that is over gets back to the main menu.
GameOverLeadsToMenu == (game.mode = "game_over") ~> (game.mode = "menu")

\* UniversalCannon.can_fire at the time the clock shows
CannonReady == CanFire(cannon, now)

\* C38: no step taken while the game is paused changes the ship, the
\* enemies, the projectile collections, the wave timers or the readiness of
\* an ability cooldown or of the cannon.
PauseFreezes ==
    [][ (game.mode = "paused") =>
        /\ ship' = ship
        /\ enemies' = enemies
        /\ bombs' = bombs /\ shots' = shots /\ beams' = beams
        /\ game'.wave_completion_timer = game.wave_completion_timer
        /\ game'.mgr = game.mgr
        /\ cannon' = cannon
        /\ CannonReady' = CannonReady ]_vars

====
